---- MODULE Spec2Model ----
(***************************************************************************)
(* State-machine model of the video-downloader pipeline:                   *)
(*   - ProcessingContext and its path derivation (model/processing_context)*)
(*   - VideoService.perform_actions and the six registry commands          *)
(*   - VideoViewModel: busy flags, worker threads and the message queue    *)
(* Strings that take part in path derivation are sequences of one-char     *)
(* strings, so that prefix/suffix tests and concatenation are computed.    *)
(***************************************************************************)
EXTENDS Integers, Sequences, FiniteSets, TLC

VARIABLES
    queue,          \* VideoViewModel.message_queue (FIFO of events)
    busy,           \* origin -> _is_url_processing / _is_trimming
    thread_of,      \* origin -> _url_processing_thread / _trimming_thread (tid or None)
    threads,        \* tid -> worker thread record (task / trim_task activation)
    call,           \* tid -> perform_actions activation (frame of the service call)
    disk,           \* file system: path -> number of times the file was written
    env,            \* environment: tools on PATH, video served for the URL, audio file
    started,        \* number of calls made so far (perform_actions or run/run_trim)
    consumer,       \* what the polling consumer has observed / asked last
    probe           \* the last library call under examination: function, arguments, result

vars == <<queue, busy, thread_of, threads, call, disk, env, started, consumer, probe>>

\* Python None where a string (a sequence of characters) may stand
None == <<"None">>

\* no Thread object / no ProcessingContext yet
NoThread == 0

NoContext == [none |-> TRUE]

\* no context is under examination
NoProbe == [fn |-> "none"]

\* ---------------------------------------------------------------- bounds
\* longest requested action list of a run that executes its steps
MaxActions == 2
\* number of start commands in the behaviours checked for progress
MaxLiveStarts == 1
\* longest requested action list whose execution order is resolved
MaxOrderLen == 3
\* perform_actions calls made by the direct caller in one behaviour
MaxRuns == 2
\* run / run_trim calls made by the consumer in one behaviour
MaxStarts == 2

\* ------------------------------------------------------ character strings
DOT == "."
SEP == "/"

StartsWith(s, c) == Len(s) > 0 /\ s[1] = c

EndsWith(s, suf) ==
    /\ Len(suf) <= Len(s)
    /\ SubSeq(s, Len(s) - Len(suf) + 1, Len(s)) = suf

\* str.strip() on a sequence of characters (blank = " ")
RECURSIVE LStrip(_)
LStrip(s) == IF Len(s) > 0 /\ s[1] = " " THEN LStrip(Tail(s)) ELSE s

RECURSIVE RStrip(_)
RStrip(s) == IF Len(s) > 0 /\ s[Len(s)] = " " THEN RStrip(SubSeq(s, 1, Len(s) - 1)) ELSE s

Strip(s) == RStrip(LStrip(s))

\* os.path.join(dir, name) for a relative name
PathJoin(dir, name) == dir \o <<SEP>> \o name

\* names of the entries of directory dir (os.listdir), flat directories only
ListDir(dsk, dir) ==
    LET pre == dir \o <<SEP>>
    IN  { SubSeq(p, Len(pre) + 1, Len(p)) :
            p \in { q \in DOMAIN dsk : Len(q) > Len(pre) /\ SubSeq(q, 1, Len(pre)) = pre } }

\* os.path.splitext(name): split at the last dot that is not the first character
LastDot(name) ==
    LET ds == { i \in 2..Len(name) : name[i] = DOT }
    IN  IF ds = {} THEN 0 ELSE CHOOSE i \in ds : \A j \in ds : j <= i

SplitExt(name) ==
    LET i == LastDot(name)
    IN  IF i = 0 THEN <<name, <<>>>>
        ELSE <<SubSeq(name, 1, i - 1), SubSeq(name, i, Len(name))>>

\* ------------------------------------------------------------- constants.py
L_EN == <<"e", "n">>
L_RU == <<"r", "u">>

META_SUFFIX == <<"m", "e", "t", "a">>
META_EXT_DEFAULT == <<"t", "x", "t">>
AUDIO_MIX_SUFFIX == <<"m", "i", "x", "e", "d">>
THUMBNAIL_EXT_DEFAULT == <<"j", "p", "g">>
SUB_FORMAT_DEFAULT == <<"v", "t", "t">>
VIDEO_FORMAT_EXT_DEFAULT == <<"m", "p", "4">>

\* attributes of the constants module that hold tool overrides
ConstantsAttrs == [FFMPEG_PATH |-> None, YTDLP_PATH |-> None]

\* safe_base[:100]
BaseMaxLen == 100

\* ------------------------------------------------- ProcessingContext
SettingKeys ==
    {"source_lang", "target_lang", "subtitle_lang", "subtitle_format",
     "video_format_ext", "yt_dlp_format", "original_volume", "added_volume",
     "merged_audio_codec"}

NewContext_Reused(url, yandex_audio, output_dir, s) ==
    IF \E u \in DOMAIN call : call[u].ctx # NoContext
    THEN call[CHOOSE u \in DOMAIN call : call[u].ctx # NoContext].ctx
    ELSE
    [ url |-> url, output_dir |-> output_dir, yandex_audio |-> yandex_audio,
      source_lang |-> s.source_lang, target_lang |-> s.target_lang,
      subtitle_lang |-> s.subtitle_lang, subtitle_format |-> s.subtitle_format,
      video_format_ext |-> s.video_format_ext, yt_dlp_format |-> s.yt_dlp_format,
      original_volume |-> s.original_volume, added_volume |-> s.added_volume,
      merged_audio_codec |-> s.merged_audio_codec,
      base |-> None, title |-> None, description |-> None, tags |-> <<>>,
      video_path |-> None, subtitle_path |-> None,
      translated_subtitle_path |-> None, metadata_path |-> None,
      translated_metadata_path |-> None, merged_video_path |-> None,
      thumbnail_path |-> None ]

\* ProcessingContext(url=..., yandex_audio=..., output_dir=..., **settings)
NewContext(url, yandex_audio, output_dir, s) ==
    [ url |-> url, output_dir |-> output_dir, yandex_audio |-> yandex_audio,
      source_lang |-> s.source_lang, target_lang |-> s.target_lang,
      subtitle_lang |-> s.subtitle_lang, subtitle_format |-> s.subtitle_format,
      video_format_ext |-> s.video_format_ext, yt_dlp_format |-> s.yt_dlp_format,
      original_volume |-> s.original_volume, added_volume |-> s.added_volume,
      merged_audio_codec |-> s.merged_audio_codec,
      base |-> None, title |-> None, description |-> None, tags |-> <<>>,
      video_path |-> None, subtitle_path |-> None,
      translated_subtitle_path |-> None, metadata_path |-> None,
      translated_metadata_path |-> None, merged_video_path |-> None,
      thumbnail_path |-> None ]

\* Python truthiness of an Optional[str]
Truthy(x) == x # None /\ x # <<>>

_get_path_RawExt(ctx, suffix, ext) ==
    IF ~Truthy(ctx.base) THEN None
    ELSE
      LET safe_suffix == IF Len(suffix) > 0 /\ ~StartsWith(suffix, DOT)
                         THEN <<DOT>> \o suffix ELSE suffix
          safe_ext == Strip(ext)
          filename == IF EndsWith(safe_suffix, safe_ext) /\ Len(safe_ext) > 0
                      THEN ctx.base \o safe_suffix
                      ELSE ctx.base \o safe_suffix \o safe_ext
      IN  PathJoin(ctx.output_dir, filename)

_get_path_Unguarded(ctx, suffix, ext) ==
    LET safe_suffix == IF Len(suffix) > 0 /\ ~StartsWith(suffix, DOT)
                       THEN <<DOT>> \o suffix ELSE suffix
        stripped == Strip(ext)
        safe_ext == IF Len(stripped) > 0 /\ ~StartsWith(stripped, DOT)
                    THEN <<DOT>> \o stripped ELSE stripped
        filename == IF EndsWith(safe_suffix, safe_ext) /\ Len(safe_ext) > 0
                    THEN ctx.base \o safe_suffix
                    ELSE ctx.base \o safe_suffix \o safe_ext
    IN  PathJoin(ctx.output_dir, filename)

_get_path(ctx, suffix, ext) ==
    IF ~Truthy(ctx.base) THEN None
    ELSE
      LET safe_suffix == IF Len(suffix) > 0 /\ ~StartsWith(suffix, DOT)
                         THEN <<DOT>> \o suffix ELSE suffix
          stripped == Strip(ext)
          safe_ext == IF Len(stripped) > 0 /\ ~StartsWith(stripped, DOT)
                      THEN <<DOT>> \o stripped ELSE stripped
          filename == IF EndsWith(safe_suffix, safe_ext) /\ Len(safe_ext) > 0
                      THEN ctx.base \o safe_suffix
                      ELSE ctx.base \o safe_suffix \o safe_ext
      IN  PathJoin(ctx.output_dir, filename)

get_metadata_filepath(ctx, lang) ==
    LET suffix == <<DOT>> \o META_SUFFIX \o
                  (IF Truthy(lang) THEN <<DOT>> \o lang ELSE <<>>)
    IN  _get_path(ctx, suffix, META_EXT_DEFAULT)

get_subtitle_filepath(ctx, lang) ==
    IF ~Truthy(lang) THEN None
    ELSE _get_path(ctx, <<DOT>> \o lang, ctx.subtitle_format)

get_video_filepath(ctx) == _get_path(ctx, <<>>, ctx.video_format_ext)

get_merged_video_filepath(ctx) ==
    _get_path(ctx, <<DOT>> \o AUDIO_MIX_SUFFIX, ctx.video_format_ext)

get_thumbnail_filepath(ctx) == _get_path(ctx, <<>>, THUMBNAIL_EXT_DEFAULT)

\* ------------------------------------------------ VideoViewModel logging
\* A log message is a sequence of tokens: its leading tag(s), then its text.
\* The non-ASCII marks of the source are spelled out: HEAVY_X, CROSS_MARK,
\* PLAY, CHECK, PARTY, WHITE_CHECK.

\* msg.lower().startswith(tag.lower())
MsgStartsWith(msg, tag) == Len(msg) > 0 /\ msg[1] = tag

LevelOf(msg) ==
    IF \/ MsgStartsWith(msg, "[ERROR]") \/ MsgStartsWith(msg, "HEAVY_X")
       \/ MsgStartsWith(msg, "CROSS_MARK") THEN "ERROR"
    ELSE IF MsgStartsWith(msg, "[WARN]") THEN "WARN"
    ELSE IF \/ MsgStartsWith(msg, "PLAY") \/ MsgStartsWith(msg, "CHECK")
            \/ MsgStartsWith(msg, "PARTY") \/ MsgStartsWith(msg, "WHITE_CHECK")
            \/ MsgStartsWith(msg, "[INFO]") THEN "INFO"
    ELSE IF MsgStartsWith(msg, "[DEBUG]") THEN "DEBUG"
    ELSE IF MsgStartsWith(msg, "[TRIM]") THEN "TRIM"
    ELSE "INFO"

LogEvent(msg, origin) ==
    [ type |-> "log", level |-> LevelOf(msg),
      data |-> IF LevelOf(msg) = "TRIM" THEN Tail(msg) ELSE msg,
      origin |-> origin ]

_log_message_to_queue(q, msg, origin) == Append(q, LogEvent(msg, origin))

\* the logger handed to VideoService and TrimMedia: the bound method, called
\* with one argument, so origin takes its default
DefaultOrigin == "url"

ServiceLog(q, msg) == _log_message_to_queue(q, msg, DefaultOrigin)

RECURSIVE ServiceLogAll(_, _)
ServiceLogAll(q, msgs) ==
    IF msgs = <<>> THEN q ELSE ServiceLogAll(ServiceLog(q, Head(msgs)), Tail(msgs))

StatusEvent(level, data, origin) ==
    [ type |-> "status", level |-> level, data |-> data, origin |-> origin ]

\* ------------------------------------------------------------ utils/utils.py
ToolNames == {"yt-dlp", "ffmpeg"}

Upper(tool) == IF tool = "ffmpeg" THEN "FFMPEG" ELSE "YT-DLP"

PathConstName(tool) == Upper(tool) \o "_PATH"

\* getattr(constants, name, None)
GetAttr(attrs, name) == IF name \in DOMAIN attrs THEN attrs[name] ELSE None

find_executable(e, name, configured_path) ==
    IF configured_path # None /\ configured_path \in e.executables
    THEN configured_path
    ELSE IF name \in e.which THEN <<"PATH", name>>
    ELSE None

\* None stands for the FileNotFoundError raised by get_tool_path
get_tool_path(e, tool_name) ==
    find_executable(e, tool_name, GetAttr(e.constants, PathConstName(tool_name)))

\* --------------------------------------------------- VideoService registry
COMMAND_MAPPING == {"md", "dv", "ds", "dt", "da", "tm"}

\* variant: 'dv' is not listed as needing metadata
METADATA_DEPENDENCIES_NoVideo == {"ds", "dt", "da", "tm"}

METADATA_DEPENDENCIES == {"dv", "ds", "dt", "da", "tm"}

TOOL_DEPENDENCIES(action) ==
    CASE action = "md" -> {"yt-dlp"}
      [] action = "dv" -> {"yt-dlp", "ffmpeg"}
      [] action = "ds" -> {"yt-dlp"}
      [] action = "dt" -> {}
      [] action = "da" -> {"ffmpeg"}
      [] action = "tm" -> {}
      [] OTHER -> {}

Elems(s) == { s[i] : i \in 1..Len(s) }

RequiredTools(actions) == UNION { TOOL_DEPENDENCIES(a) : a \in Elems(actions) }

MissingTools(e, actions) ==
    { tool \in RequiredTools(actions) :
        find_executable(e, tool, GetAttr(e.constants, PathConstName(tool))) = None }

\* variant: the tool check always passes
_check_tool_availability_Skipped(e, actions) == TRUE

_check_tool_availability(e, actions) == MissingTools(e, actions) = {}

\* list.index(x): position of the first occurrence
IndexOf(s, x) == CHOOSE i \in 1..Len(s) : s[i] = x /\ \A j \in 1..(i - 1) : s[j] # x

\* list.remove(x): drop the first occurrence
RemoveFirst(s, x) ==
    LET i == IndexOf(s, x) IN SubSeq(s, 1, i - 1) \o SubSeq(s, i + 1, Len(s))

needs_metadata(actions) == \E a \in Elems(actions) : a \in METADATA_DEPENDENCIES

\* variant: 'md' is put first and its old entry is left where it was
ResolveOrder_NotRemoved(actions) ==
    IF needs_metadata(actions)
    THEN IF "md" \notin Elems(actions) THEN <<"md">> \o actions
         ELSE IF IndexOf(actions, "md") # 1 THEN <<"md">> \o actions
         ELSE actions
    ELSE actions

\* variant: a missing 'md' is appended instead of put first
ResolveOrder_Appended(actions) ==
    IF needs_metadata(actions)
    THEN IF "md" \notin Elems(actions) THEN actions \o <<"md">>
         ELSE IF IndexOf(actions, "md") # 1 THEN <<"md">> \o RemoveFirst(actions, "md")
         ELSE actions
    ELSE actions

\* variant: 'md' changes places with the first action
ResolveOrder_Swapped(actions) ==
    IF needs_metadata(actions)
    THEN IF "md" \notin Elems(actions) THEN <<"md">> \o actions
         ELSE IF IndexOf(actions, "md") # 1
              THEN [actions EXCEPT ![1] = "md", ![IndexOf(actions, "md")] = actions[1]]
         ELSE actions
    ELSE actions

ResolveOrder(actions) ==
    IF needs_metadata(actions)
    THEN IF "md" \notin Elems(actions) THEN <<"md">> \o actions
         ELSE IF IndexOf(actions, "md") # 1 THEN <<"md">> \o RemoveFirst(actions, "md")
         ELSE actions
    ELSE actions

ResolveLogs(actions) ==
    (IF needs_metadata(actions)
     THEN IF "md" \notin Elems(actions) THEN << <<"[INFO]", "md added">> >>
          ELSE IF IndexOf(actions, "md") # 1 THEN << <<"[INFO]", "md moved">> >>
          ELSE <<>>
     ELSE <<>>)
    \o << <<"[INFO]", "Final execution order">> >>

\* ------------------------------------------------------------ file system
Exists(dsk, p) == p \in DOMAIN dsk

\* open(p, 'w') / a tool creating p: the file exists afterwards, content renewed
WriteFile(dsk, p) ==
    [ q \in DOMAIN dsk \cup {p} |->
        IF q = p THEN (IF p \in DOMAIN dsk THEN dsk[p] + 1 ELSE 1) ELSE dsk[q] ]

\* os.rename(a, b)
RenameFile(dsk, a, b) ==
    [ q \in (DOMAIN dsk \ {a}) \cup {b} |-> IF q = b THEN dsk[a] ELSE dsk[q] ]

\* ------------------------------------------------------ command results
NoExc == "none"

\* what one execute() call did: the context and disk it leaves, the lines it
\* logged, the external tools / translation collaborator it invoked, and the
\* exception class it raised (NoExc when it returned)
Res(ctx, dsk, logs, invoked, raised) ==
    [ ctx |-> ctx, disk |-> dsk, logs |-> logs, invoked |-> invoked, raised |-> raised ]

\* ---------------------------------------------- commands/download_metadata.py
ForbiddenChars == {"<", ">", ":", "\"", "/", "\\", "|", "?", "*"}

WhitespaceChars == {" ", "\t", "\n"}

\* re.sub(r'[<>:"/\\|?*]', '_', raw)
SubForbidden(s) == [ i \in 1..Len(s) |-> IF s[i] \in ForbiddenChars THEN "_" ELSE s[i] ]

\* re.sub(r'\s+', '_', s): every maximal run of whitespace becomes one '_'
RECURSIVE SubWhitespace(_, _)
SubWhitespace(s, inRun) ==
    IF s = <<>> THEN <<>>
    ELSE IF Head(s) \in WhitespaceChars
         THEN (IF inRun THEN <<>> ELSE <<"_">>) \o SubWhitespace(Tail(s), TRUE)
         ELSE <<Head(s)>> \o SubWhitespace(Tail(s), FALSE)

SafeBase(video) ==
    LET raw_base == IF video.id # <<>> THEN video.id ELSE video.title
        cleaned == SubWhitespace(SubForbidden(raw_base), FALSE)
        cut == SubSeq(cleaned, 1, IF Len(cleaned) < BaseMaxLen THEN Len(cleaned) ELSE BaseMaxLen)
    IN  IF cut = <<>> THEN <<"v", "i", "d", "e", "o">> ELSE cut

DownloadMetadata(e, ctx, dsk) ==
    LET log0 == << <<"[INFO]", "Requesting metadata...">> >>
    IN
    IF get_tool_path(e, "yt-dlp") = None
    THEN { Res(ctx, dsk, log0, {}, "FileNotFoundError") }
    ELSE
      LET v == e.video
          c1 == [ctx EXCEPT !.base = SafeBase(v), !.title = v.title,
                            !.description = v.description, !.tags = v.tags]
          meta_path == get_metadata_filepath(c1, None)
          c2 == [c1 EXCEPT !.metadata_path = meta_path]
      IN
      { Res(ctx, dsk, log0 \o << <<"[ERROR]", "yt-dlp failed while fetching metadata">> >>,
            {"yt-dlp"}, "CalledProcessError"),
        Res(ctx, dsk, log0 \o << <<"[ERROR]", "Failed to decode JSON from yt-dlp">> >>,
            {"yt-dlp"}, "JSONDecodeError") }
      \cup
      ( IF ~Truthy(meta_path)
        THEN { Res(c1, dsk,
                   log0 \o << <<"[ERROR]", "Cannot determine metadata file path">>,
                              <<"[ERROR]", "Unexpected error downloading metadata">> >>,
                   {"yt-dlp"}, "ValueError") }
        ELSE { Res(c2, dsk,
                   log0 \o << <<"[INFO]", "Saving metadata">>,
                              <<"[ERROR]", "Failed to write metadata file">>,
                              <<"[ERROR]", "Unexpected error downloading metadata">> >>,
                   {"yt-dlp"}, "IOError"),
               Res(c2, WriteFile(dsk, meta_path),
                   log0 \o << <<"[INFO]", "Saving metadata">>,
                              <<"[INFO]", "Metadata saved successfully.">> >>,
                   {"yt-dlp"}, NoExc) } )

\* ------------------------------------------------- commands/download_video.py
ALT_VIDEO_EXT == <<DOT, "w", "e", "b", "m">>

TempExts == { <<DOT, "p", "a", "r", "t">>, <<DOT, "y", "t", "d", "l">> }

\* files of the output directory named base.<ext>, temporary downloads excluded
BaseMatches(ctx, dsk) ==
    { PathJoin(ctx.output_dir, fname) :
        fname \in { f \in ListDir(dsk, ctx.output_dir) :
                      /\ SplitExt(f)[1] = ctx.base
                      /\ SplitExt(f)[2] # <<>>
                      /\ SplitExt(f)[2] \notin TempExts } }

\* lines 69-103: what the command does once yt-dlp has exited with status 0
\* and left the disk as dsk
VideoAfterRun(ctx, dsk, expected, logs) ==
    IF Exists(dsk, expected)
    THEN { Res([ctx EXCEPT !.video_path = expected], dsk,
               logs \o << <<"[INFO]", "Video downloaded successfully">> >>,
               {"yt-dlp"}, NoExc) }
    ELSE IF BaseMatches(ctx, dsk) # {}
    THEN { Res([ctx EXCEPT !.video_path = found], dsk,
               logs \o << <<"[DEBUG]", "Expected video path not found. Searching">>,
                          <<"[WARN]", "Video downloaded under another name. Using actual file.">> >>,
               {"yt-dlp"}, NoExc) : found \in BaseMatches(ctx, dsk) }
    ELSE { Res(ctx, dsk,
               logs \o << <<"[DEBUG]", "Expected video path not found. Searching">>,
                          <<"[ERROR]", "Expected video file not found after download">>,
                          <<"[ERROR]", "Unexpected error downloading video">> >>,
               {"yt-dlp"}, "FileNotFoundError") }

DownloadVideo(e, ctx, dsk) ==
    IF ~Truthy(ctx.base)
    THEN { Res(ctx, dsk, << <<"[ERROR]", "Cannot download video: base not set">> >>,
               {}, "ValueError") }
    ELSE IF ~Truthy(ctx.yt_dlp_format)
    THEN { Res(ctx, dsk, << <<"[ERROR]", "yt-dlp download format is not specified">> >>,
               {}, "ValueError") }
    ELSE IF ~Truthy(ctx.video_format_ext)
    THEN { Res(ctx, dsk, << <<"[ERROR]", "Video output format extension is not specified">> >>,
               {}, "ValueError") }
    ELSE
      LET expected == get_video_filepath(ctx)
          logs == << <<"[INFO]", "Downloading video">>,
                     <<"[DEBUG]", "Executing yt-dlp command">> >>
      IN
      IF ~Truthy(expected)
      THEN { Res(ctx, dsk, << <<"[ERROR]", "Cannot determine video file path.">> >>,
                 {}, "ValueError") }
      ELSE IF Exists(dsk, expected)
      THEN { Res([ctx EXCEPT !.video_path = expected], dsk,
                 << <<"[WARN]", "Video file already exists. Skipping download.">> >>,
                 {}, NoExc) }
      ELSE IF get_tool_path(e, "yt-dlp") = None
      THEN { Res(ctx, dsk, <<>>, {}, "FileNotFoundError") }
      ELSE
        \* yt-dlp exits non-zero
        { Res(ctx, dsk, logs \o << <<"[ERROR]", "yt-dlp failed while downloading video">> >>,
              {"yt-dlp"}, "CalledProcessError") }
        \* yt-dlp exits 0 and leaves the merged file, another container, or nothing
        \cup VideoAfterRun(ctx, WriteFile(dsk, expected), expected, logs)
        \cup VideoAfterRun(ctx, WriteFile(dsk, PathJoin(ctx.output_dir, ctx.base \o ALT_VIDEO_EXT)),
                           expected, logs)
        \cup VideoAfterRun(ctx, dsk, expected, logs)

\* --------------------------------------------- commands/download_subtitles.py
\* lines 67-108: what the command does once yt-dlp has exited with status 0 and
\* left the disk as dsk; no_subs tells whether stderr carries one of the known
\* "no subtitles" phrases
SubsAfterRun(ctx, dsk, expected, no_subs, logs) ==
    LET alt == _get_path(ctx, <<>>, ctx.subtitle_format)
    IN
    IF Exists(dsk, expected)
    THEN { Res([ctx EXCEPT !.subtitle_path = expected], dsk,
               logs \o << <<"[INFO]", "Subtitles downloaded successfully">> >>,
               {"yt-dlp"}, NoExc) }
    ELSE IF Truthy(alt) /\ Exists(dsk, alt)
    THEN { \* os.rename succeeds
           Res([ctx EXCEPT !.subtitle_path = expected], RenameFile(dsk, alt, expected),
               logs \o << <<"[WARN]", "Subtitle found under another name. Renaming.">>,
                          <<"[INFO]", "Subtitles ready">> >>,
               {"yt-dlp"}, NoExc),
           \* os.rename raises OSError
           Res([ctx EXCEPT !.subtitle_path = alt], dsk,
               logs \o << <<"[WARN]", "Subtitle found under another name. Renaming.">>,
                          <<"[ERROR]", "Failed to rename subtitle file">> >>,
               {"yt-dlp"}, NoExc) }
    ELSE IF no_subs
    THEN { Res(ctx, dsk, logs \o << <<"[WARN]", "No subtitles available">> >>,
               {"yt-dlp"}, NoExc) }
    ELSE { Res(ctx, dsk,
               logs \o << <<"[ERROR]", "Expected subtitle file not found after download">> >>,
               {"yt-dlp"}, NoExc) }

\* lines 110-130: the handler of CalledProcessError (yt-dlp exited non-zero)
SubsAfterError(ctx, dsk, no_subs, logs) ==
    IF no_subs
    THEN { Res(ctx, dsk,
               logs \o << <<"[WARN]", "No subtitles available (reported by yt-dlp error)">> >>,
               {"yt-dlp"}, NoExc) }
    ELSE { Res(ctx, dsk,
               logs \o << <<"[ERROR]", "yt-dlp failed while downloading subtitles">> >>,
               {"yt-dlp"}, "CalledProcessError") }

DownloadSubtitles(e, ctx, dsk) ==
    IF ~Truthy(ctx.base)
    THEN { Res(ctx, dsk, << <<"[ERROR]", "Cannot download subtitles: base not set">> >>,
               {}, "ValueError") }
    ELSE IF ~Truthy(ctx.subtitle_lang)
    THEN { Res(ctx, dsk, << <<"[ERROR]", "Subtitle download language is not specified">> >>,
               {}, "ValueError") }
    ELSE IF ~Truthy(ctx.subtitle_format)
    THEN { Res(ctx, dsk, << <<"[ERROR]", "Subtitle format is not specified">> >>,
               {}, "ValueError") }
    ELSE
      LET expected == get_subtitle_filepath(ctx, ctx.subtitle_lang)
          logs == << <<"[INFO]", "Downloading subtitles">> >>
          alt == _get_path(ctx, <<>>, ctx.subtitle_format)
      IN
      IF ~Truthy(expected)
      THEN { Res(ctx, dsk, << <<"[ERROR]", "Cannot determine subtitle file path.">> >>,
                 {}, "ValueError") }
      ELSE IF Exists(dsk, expected)
      THEN { Res([ctx EXCEPT !.subtitle_path = expected], dsk,
                 << <<"[WARN]", "Subtitle file already exists. Skipping download.">> >>,
                 {}, NoExc) }
      ELSE IF get_tool_path(e, "yt-dlp") = None
      THEN { Res(ctx, dsk, <<>>, {}, "FileNotFoundError") }
      ELSE
        \* yt-dlp exits 0: it wrote base.<lang>.<fmt>, or base.<fmt>, or nothing
        SubsAfterRun(ctx, WriteFile(dsk, expected), expected, FALSE, logs)
        \cup SubsAfterRun(ctx, WriteFile(dsk, alt), expected, FALSE, logs)
        \cup SubsAfterRun(ctx, dsk, expected, TRUE, logs)
        \cup SubsAfterRun(ctx, dsk, expected, FALSE, logs)
        \* yt-dlp exits non-zero, stderr says "no subtitles" or something else
        \cup SubsAfterError(ctx, dsk, TRUE, logs)
        \cup SubsAfterError(ctx, dsk, FALSE, logs)

\* -------------------------------------------- commands/translate_subtitles.py
TranslateSubtitles(e, ctx, dsk) ==
    IF ~Truthy(ctx.subtitle_path)
    THEN { Res(ctx, dsk,
               << <<"[WARN]", "Skipping subtitle translation: No source subtitle path">> >>,
               {}, NoExc) }
    ELSE IF ~Exists(dsk, ctx.subtitle_path)
    THEN { Res(ctx, dsk,
               << <<"[ERROR]", "Skipping subtitle translation: Source file not found">> >>,
               {}, "FileNotFoundError") }
    ELSE IF ~Truthy(ctx.base)
    THEN { Res(ctx, dsk,
               << <<"[ERROR]", "Skipping subtitle translation: Base filename not set.">> >>,
               {}, "ValueError") }
    ELSE IF ~Truthy(ctx.source_lang) \/ ~Truthy(ctx.target_lang)
    THEN { Res(ctx, dsk, << <<"[ERROR]", "Source or Target language is missing">> >>,
               {}, "ValueError") }
    ELSE IF ~Truthy(ctx.subtitle_format)
    THEN { Res(ctx, dsk, << <<"[ERROR]", "Subtitle format is missing">> >>,
               {}, "ValueError") }
    ELSE IF ctx.source_lang = ctx.target_lang
    THEN { Res(ctx, dsk,
               << <<"[WARN]", "Source and target language are the same. Skipping subtitle translation.">> >>,
               {}, NoExc) }
    ELSE
      LET target_path == get_subtitle_filepath(ctx, ctx.target_lang)
          logs == << <<"[INFO]", "Translating subtitles">>,
                     <<"[INFO]", "Loading source subtitles...">> >>
          failed == << <<"[ERROR]", "Unexpected error during subtitle translation">>,
                       <<"[DEBUG]", "Traceback">> >>
      IN
      IF ~Truthy(target_path)
      THEN { Res(ctx, dsk, << <<"[ERROR]", "Cannot determine target subtitle file path.">> >>,
                 {}, "ValueError") }
      ELSE IF Exists(dsk, target_path)
      THEN { Res([ctx EXCEPT !.translated_subtitle_path = target_path], dsk,
                 << <<"[WARN]", "Translated subtitle file already exists. Skipping translation.">> >>,
                 {}, NoExc) }
      ELSE
        { \* pysubs2.load raises
          Res(ctx, dsk, logs \o failed, {}, "Exception"),
          \* the file holds no events
          Res(ctx, dsk, logs \o << <<"[WARN]", "Source subtitle file is empty. Skipping translation.">> >>,
              {}, NoExc),
          \* GoogleTranslator(...) raises
          Res(ctx, dsk, logs \o failed, {"translator"}, "Exception"),
          \* no line could be translated
          Res(ctx, dsk,
              logs \o << <<"[INFO]", "Starting translation">>,
                         <<"[ERROR]", "Failed to translate line">>,
                         <<"[INFO]", "Translation finished.">>,
                         <<"[WARN]", "No lines were successfully translated. Output file not saved.">> >>,
              {"translator"}, NoExc),
          \* subs.save raises
          Res(ctx, dsk,
              logs \o << <<"[INFO]", "Starting translation">>,
                         <<"[INFO]", "Translation finished.">>,
                         <<"[INFO]", "Saving translated subtitles">>,
                         <<"[ERROR]", "Failed to save translated subtitles">> >> \o failed,
              {"translator"}, "IOError"),
          \* translated and saved
          Res([ctx EXCEPT !.translated_subtitle_path = target_path],
              WriteFile(dsk, target_path),
              logs \o << <<"[INFO]", "Starting translation">>,
                         <<"[INFO]", "Translation finished.">>,
                         <<"[INFO]", "Saving translated subtitles">>,
                         <<"[INFO]", "Translated subtitles saved successfully.">> >>,
              {"translator"}, NoExc) }

\* --------------------------------------------- commands/translate_metadata.py
TranslateMetadata_SameLangBlind(e, ctx, dsk) ==
    IF ~Truthy(ctx.base)
    THEN { Res(ctx, dsk, << <<"[WARN]", "Skipping metadata translation: base not set">> >>,
               {}, NoExc) }
    ELSE IF ~Truthy(ctx.title) /\ ~Truthy(ctx.description) /\ ctx.tags = <<>>
    THEN { Res(ctx, dsk, << <<"[INFO]", "Skipping metadata translation: No source metadata">> >>,
               {}, NoExc) }
    ELSE IF ~Truthy(ctx.source_lang) \/ ~Truthy(ctx.target_lang)
    THEN { Res(ctx, dsk, << <<"[ERROR]", "Source or Target language is missing">> >>,
               {}, "ValueError") }
    ELSE IF FALSE
    THEN { Res(ctx, dsk,
               << <<"[WARN]", "Source and target language are the same. Skipping metadata translation.">> >>,
               {}, NoExc) }
    ELSE
      LET target_path == get_metadata_filepath(ctx, ctx.target_lang)
          logs == << <<"[INFO]", "Translating metadata">> >>
          failed == << <<"[ERROR]", "Unexpected error during metadata translation">>,
                       <<"[DEBUG]", "Traceback">> >>
      IN
      IF ~Truthy(target_path)
      THEN { Res(ctx, dsk, << <<"[ERROR]", "Cannot determine target metadata file path.">> >>,
                 {}, "ValueError") }
      ELSE IF Exists(dsk, target_path)
      THEN { Res([ctx EXCEPT !.translated_metadata_path = target_path], dsk,
                 << <<"[WARN]", "Translated metadata file already exists. Skipping translation.">> >>,
                 {}, NoExc) }
      ELSE
        { \* GoogleTranslator(...) raises
          Res(ctx, dsk, logs \o failed, {"translator"}, "Exception"),
          \* every translate() call failed or returned nothing
          Res(ctx, dsk,
              logs \o << <<"[ERROR]", "Failed to translate title">>,
                         <<"[WARN]", "No metadata was successfully translated. Output file not saved.">> >>,
              {"translator"}, NoExc),
          \* open(target_path, 'w') raises
          Res(ctx, dsk,
              logs \o << <<"[INFO]", "Saving translated metadata">>,
                         <<"[ERROR]", "Failed to write translated metadata file">> >> \o failed,
              {"translator"}, "IOError"),
          \* translated and saved
          Res([ctx EXCEPT !.translated_metadata_path = target_path],
              WriteFile(dsk, target_path),
              logs \o << <<"[INFO]", "Saving translated metadata">>,
                         <<"[INFO]", "Translated metadata saved successfully.">> >>,
              {"translator"}, NoExc) }

TranslateMetadata(e, ctx, dsk) ==
    IF ~Truthy(ctx.base)
    THEN { Res(ctx, dsk, << <<"[WARN]", "Skipping metadata translation: base not set">> >>,
               {}, NoExc) }
    ELSE IF ~Truthy(ctx.title) /\ ~Truthy(ctx.description) /\ ctx.tags = <<>>
    THEN { Res(ctx, dsk, << <<"[INFO]", "Skipping metadata translation: No source metadata">> >>,
               {}, NoExc) }
    ELSE IF ~Truthy(ctx.source_lang) \/ ~Truthy(ctx.target_lang)
    THEN { Res(ctx, dsk, << <<"[ERROR]", "Source or Target language is missing">> >>,
               {}, "ValueError") }
    ELSE IF ctx.source_lang = ctx.target_lang
    THEN { Res(ctx, dsk,
               << <<"[WARN]", "Source and target language are the same. Skipping metadata translation.">> >>,
               {}, NoExc) }
    ELSE
      LET target_path == get_metadata_filepath(ctx, ctx.target_lang)
          logs == << <<"[INFO]", "Translating metadata">> >>
          failed == << <<"[ERROR]", "Unexpected error during metadata translation">>,
                       <<"[DEBUG]", "Traceback">> >>
      IN
      IF ~Truthy(target_path)
      THEN { Res(ctx, dsk, << <<"[ERROR]", "Cannot determine target metadata file path.">> >>,
                 {}, "ValueError") }
      ELSE IF Exists(dsk, target_path)
      THEN { Res([ctx EXCEPT !.translated_metadata_path = target_path], dsk,
                 << <<"[WARN]", "Translated metadata file already exists. Skipping translation.">> >>,
                 {}, NoExc) }
      ELSE
        { \* GoogleTranslator(...) raises
          Res(ctx, dsk, logs \o failed, {"translator"}, "Exception"),
          \* every translate() call failed or returned nothing
          Res(ctx, dsk,
              logs \o << <<"[ERROR]", "Failed to translate title">>,
                         <<"[WARN]", "No metadata was successfully translated. Output file not saved.">> >>,
              {"translator"}, NoExc),
          \* open(target_path, 'w') raises
          Res(ctx, dsk,
              logs \o << <<"[INFO]", "Saving translated metadata">>,
                         <<"[ERROR]", "Failed to write translated metadata file">> >> \o failed,
              {"translator"}, "IOError"),
          \* translated and saved
          Res([ctx EXCEPT !.translated_metadata_path = target_path],
              WriteFile(dsk, target_path),
              logs \o << <<"[INFO]", "Saving translated metadata">>,
                         <<"[INFO]", "Translated metadata saved successfully.">> >>,
              {"translator"}, NoExc) }

\* --------------------------------------------------- commands/merge_audio.py
\* float(s) does not raise
IsFloat(s) == s \in {"0.0", "0.4", "1.0"}

MergeAudio(e, ctx, dsk) ==
    IF ~Truthy(ctx.video_path)
    THEN { Res(ctx, dsk, << <<"[ERROR]", "Cannot merge audio: Video path not found in context">> >>,
               {}, "ValueError") }
    ELSE IF ~Truthy(ctx.yandex_audio)
    THEN { Res(ctx, dsk, << <<"[ERROR]", "Cannot merge audio: Yandex audio path not provided">> >>,
               {}, "ValueError") }
    ELSE IF ~Truthy(ctx.base)
    THEN { Res(ctx, dsk, << <<"[ERROR]", "Cannot merge audio: Base filename not set">> >>,
               {}, "ValueError") }
    ELSE IF ~IsFloat(ctx.original_volume) \/ ~IsFloat(ctx.added_volume)
    THEN { Res(ctx, dsk, << <<"[ERROR]", "Invalid volume setting found">> >>,
               {}, "ValueError") }
    ELSE IF ~Truthy(ctx.merged_audio_codec)
    THEN { Res(ctx, dsk, << <<"[ERROR]", "Merged audio codec is not specified">> >>,
               {}, "ValueError") }
    ELSE
      LET output_path == get_merged_video_filepath(ctx)
          logs == << <<"[INFO]", "Merging audio tracks">>,
                     <<"[DEBUG]", "Executing FFmpeg command">> >>
      IN
      IF ~Truthy(output_path)
      THEN { Res(ctx, dsk, << <<"[ERROR]", "Cannot determine merged video output path.">> >>,
                 {}, "ValueError") }
      ELSE IF ~Exists(dsk, ctx.video_path)
      THEN { Res(ctx, dsk, << <<"[ERROR]", "Audio merge failed: Input video file not found">> >>,
                 {}, "FileNotFoundError") }
      ELSE IF ~Exists(dsk, ctx.yandex_audio)
      THEN { Res(ctx, dsk, << <<"[ERROR]", "Audio merge failed: Yandex audio file not found">> >>,
                 {}, "FileNotFoundError") }
      ELSE IF Exists(dsk, output_path)
      THEN { Res([ctx EXCEPT !.merged_video_path = output_path], dsk,
                 << <<"[WARN]", "Merged video file already exists. Skipping merge.">> >>,
                 {}, NoExc) }
      ELSE IF get_tool_path(e, "ffmpeg") = None
      THEN { Res(ctx, dsk, <<>>, {}, "FileNotFoundError") }
      ELSE
        { \* ffmpeg exits non-zero
          Res(ctx, dsk, logs \o << <<"[ERROR]", "ffmpeg failed during audio merge">> >>,
              {"ffmpeg"}, "CalledProcessError"),
          \* ffmpeg exits 0 and wrote the output
          Res([ctx EXCEPT !.merged_video_path = output_path], WriteFile(dsk, output_path),
              logs \o << <<"[INFO]", "Audio merged successfully">>,
                         <<"[INFO]", "Final video with mixed audio">> >>,
              {"ffmpeg"}, NoExc),
          \* ffmpeg exits 0 but the output is missing
          Res(ctx, dsk,
              logs \o << <<"[ERROR]", "Merged video file not found after successful ffmpeg command">>,
                         <<"[ERROR]", "Unexpected error during audio merge">> >>,
              {"ffmpeg"}, "FileNotFoundError") }

Execute_Relabels(key, e, ctx, dsk) ==
    CASE key = "md" -> { [r EXCEPT !.ctx.subtitle_lang = r.ctx.target_lang] :
                           r \in DownloadMetadata(e, ctx, dsk) }
      [] key = "dv" -> DownloadVideo(e, ctx, dsk)
      [] key = "ds" -> DownloadSubtitles(e, ctx, dsk)
      [] key = "dt" -> TranslateSubtitles(e, ctx, dsk)
      [] key = "da" -> MergeAudio(e, ctx, dsk)
      [] key = "tm" -> TranslateMetadata(e, ctx, dsk)

\* command_class(self.logger).execute(context)
Execute(key, e, ctx, dsk) ==
    CASE key = "md" -> DownloadMetadata(e, ctx, dsk)
      [] key = "dv" -> DownloadVideo(e, ctx, dsk)
      [] key = "ds" -> DownloadSubtitles(e, ctx, dsk)
      [] key = "dt" -> TranslateSubtitles(e, ctx, dsk)
      [] key = "da" -> MergeAudio(e, ctx, dsk)
      [] key = "tm" -> TranslateMetadata(e, ctx, dsk)

\* the class name logged for a command
ActionName(key) ==
    CASE key = "md" -> "DownloadMetadata"
      [] key = "dv" -> "DownloadVideo"
      [] key = "ds" -> "DownloadSubtitles"
      [] key = "dt" -> "TranslateSubtitles"
      [] key = "da" -> "MergeAudio"
      [] key = "tm" -> "TranslateMetadata"

\* the except clause of perform_actions that catches an exception class, as
\* the line it logs
ExceptLog(exc, name) ==
    CASE exc = "FileNotFoundError" -> <<"HEAVY_X", "FILE/TOOL NOT FOUND during", name>>
      [] exc = "CalledProcessError" -> <<"HEAVY_X", "EXTERNAL TOOL FAILED during", name>>
      [] exc \in {"ValueError", "JSONDecodeError"} ->
            <<"HEAVY_X", "CONFIGURATION/VALUE ERROR during", name>>
      [] exc = "IOError" -> <<"HEAVY_X", "FILE I/O ERROR during", name>>
      [] OTHER -> <<"HEAVY_X", "UNEXPECTED ERROR during", name>>

\* ------------------------------------------------------------------ inputs
Origins == {"url", "trim"}

\* identifiers the presentation layer offers (ProcessTab.ACTION_DEFINITIONS)
ActionIds == {"tp", "md", "dv", "ds", "dt", "da", "tm"}

\* a request is a set of identifiers handed over as a list: no repetitions
RequestsUpTo(len) ==
    { r \in UNION { [1..n -> ActionIds] : n \in 0..len } :
        \A i, j \in 1..Len(r) : i # j => r[i] # r[j] }

Requests == RequestsUpTo(MaxActions)

LongRequests == RequestsUpTo(MaxOrderLen)

URL == "https://v"

OUTPUT_DIR == <<"o">>

AUDIO_PATH == <<SEP, "a">>

AudioInputs == {None, AUDIO_PATH}

SettingsValues(src, tgt, sub) ==
    [ source_lang |-> src, target_lang |-> tgt, subtitle_lang |-> sub,
      subtitle_format |-> SUB_FORMAT_DEFAULT, video_format_ext |-> VIDEO_FORMAT_EXT_DEFAULT,
      yt_dlp_format |-> <<"b">>, original_volume |-> "0.0", added_volume |-> "1.0",
      merged_audio_codec |-> <<"a", "a", "c">> ]

\* the settings argument: a dict of the nine settings, a dict with a key the
\* dataclass does not know, or an object that is no dict at all
SettingsInputs ==
    { [kind |-> "dict", extra |-> FALSE, values |-> SettingsValues(L_EN, L_RU, L_EN)],
      [kind |-> "dict", extra |-> FALSE, values |-> SettingsValues(L_EN, L_EN, L_EN)],
      [kind |-> "dict", extra |-> FALSE, values |-> SettingsValues(L_EN, L_RU, L_RU)],
      [kind |-> "dict", extra |-> TRUE, values |-> SettingsValues(L_EN, L_RU, L_EN)],
      [kind |-> "other", extra |-> FALSE, values |-> SettingsValues(L_EN, L_RU, L_EN)] }

\* what yt-dlp --dump-single-json reports for the URL
Videos ==
    { [id |-> <<"v">>, title |-> <<"T">>, description |-> <<"d">>, tags |-> << <<"g">> >>] }

Envs ==
    { [which |-> w, constants |-> ConstantsAttrs, executables |-> {}, video |-> v] :
        w \in SUBSET ToolNames, v \in Videos }

\* ------------------------------------------- VideoService.perform_actions
IdleCall ==
    [ pc |-> "idle", url |-> URL, yandex_audio |-> None, actions |-> <<>>,
      settings |-> [kind |-> "dict", extra |-> FALSE,
                    values |-> SettingsValues(L_EN, L_RU, L_EN)],
      ctx |-> NoContext, ordered |-> <<>>, idx |-> 0, success |-> FALSE,
      result |-> "none", steps |-> <<>>, disk0 |-> << >>, earlier |-> <<>> ]

\* steps, disk0 and earlier are bookkeeping: what each loop iteration did, the
\* disk as it was when the call was made, and the steps and result of the
\* calls this call repeats
NewCall(actions, audio, settings, dsk) ==
    [ IdleCall EXCEPT !.pc = "entry", !.actions = actions, !.yandex_audio = audio,
                      !.settings = settings, !.disk0 = dsk ]

\* lines 100-106: the header lines; settings.get raises on a non-dict
PA_Entry(t) ==
    /\ call[t].pc = "entry"
    /\ LET q1 == ServiceLog(queue, <<"[INFO]", "=== Starting Video Processing ===">>)
       IN  IF call[t].settings.kind # "dict"
           THEN /\ queue' = q1
                /\ call' = [call EXCEPT ![t].pc = "raised", ![t].result = "raised"]
           ELSE /\ queue' = ServiceLog(q1, <<"[INFO]", "Settings">>)
                /\ call' = [call EXCEPT ![t].pc = "preflight"]
    /\ UNCHANGED <<busy, thread_of, threads, disk, env, started, consumer, probe>>

\* lines 109-112
PA_Preflight(t) ==
    /\ call[t].pc = "preflight"
    /\ IF _check_tool_availability(env, call[t].actions)
       THEN /\ queue' = ServiceLog(queue, <<"[DEBUG]", "tool check passed">>)
            /\ call' = [call EXCEPT ![t].pc = "construct"]
       ELSE /\ queue' = ServiceLogAll(queue,
                          << <<"[ERROR]", "Required tool not found.">>,
                             <<"[ERROR]", "Aborting processing due to missing required external tools.">> >>)
            /\ call' = [call EXCEPT ![t].pc = "returned", ![t].result = "False"]
    /\ UNCHANGED <<busy, thread_of, threads, disk, env, started, consumer, probe>>

\* lines 116-128: an unexpected key makes the dataclass constructor raise TypeError
PA_Construct(t) ==
    /\ call[t].pc = "construct"
    /\ IF call[t].settings.extra
       THEN /\ queue' = ServiceLogAll(queue,
                          << <<"[ERROR]", "Failed to initialize ProcessingContext">>,
                             <<"[DEBUG]", "Provided settings">> >>)
            /\ call' = [call EXCEPT ![t].pc = "returned", ![t].result = "False"]
       ELSE /\ queue' = ServiceLog(queue, <<"[DEBUG]", "Initialized ProcessingContext">>)
            /\ call' = [call EXCEPT ![t].pc = "resolve",
                             ![t].ctx = NewContext(call[t].url, call[t].yandex_audio,
                                                   OUTPUT_DIR, call[t].settings.values)]
    /\ UNCHANGED <<busy, thread_of, threads, disk, env, started, consumer, probe>>

\* lines 133-155
PA_Resolve(t) ==
    /\ call[t].pc = "resolve"
    /\ queue' = ServiceLogAll(queue, ResolveLogs(call[t].actions))
    /\ call' = [call EXCEPT ![t].ordered = ResolveOrder(call[t].actions),
                            ![t].idx = 1, ![t].success = TRUE,
                            ![t].pc = IF ResolveOrder(call[t].actions) = <<>>
                                      THEN "report" ELSE "loop"]
    /\ UNCHANGED <<busy, thread_of, threads, disk, env, started, consumer, probe>>

\* the artifact a command produces, as far as it can be told before it runs
TargetPath(key, e, ctx) ==
    CASE key = "md" -> get_metadata_filepath([ctx EXCEPT !.base = SafeBase(e.video)], None)
      [] key = "dv" -> get_video_filepath(ctx)
      [] key = "ds" -> get_subtitle_filepath(ctx, ctx.subtitle_lang)
      [] key = "dt" -> get_subtitle_filepath(ctx, ctx.target_lang)
      [] key = "da" -> get_merged_video_filepath(ctx)
      [] key = "tm" -> get_metadata_filepath(ctx, ctx.target_lang)

\* the context slot a command records its artifact in
SlotOf(key, ctx) ==
    CASE key = "md" -> ctx.metadata_path
      [] key = "dv" -> ctx.video_path
      [] key = "ds" -> ctx.subtitle_path
      [] key = "dt" -> ctx.translated_subtitle_path
      [] key = "da" -> ctx.merged_video_path
      [] key = "tm" -> ctx.translated_metadata_path

\* where the loop goes after one iteration: break with success = False when the
\* command raised (lines 183-213), the next action otherwise
\* variant: a raising command marks the run failed but the loop goes on
AfterCommand_Continue(c, raised) ==
    [pc |-> IF c.idx + 1 > Len(c.ordered) THEN "report" ELSE "loop",
     idx |-> c.idx + 1, success |-> IF raised THEN FALSE ELSE c.success]

\* variant: a raising command breaks the loop without marking the run failed
AfterCommand_KeepSuccess(c, raised) ==
    IF raised
    THEN [pc |-> "report", idx |-> c.idx, success |-> c.success]
    ELSE [pc |-> IF c.idx + 1 > Len(c.ordered) THEN "report" ELSE "loop",
          idx |-> c.idx + 1, success |-> c.success]

AfterCommand(c, raised) ==
    IF raised
    THEN [pc |-> "report", idx |-> c.idx, success |-> FALSE]
    ELSE [pc |-> IF c.idx + 1 > Len(c.ordered) THEN "report" ELSE "loop",
          idx |-> c.idx + 1, success |-> c.success]

\* line 168: the precondition applies to the actions that need 'md'
RequiresBase(key) == key \in METADATA_DEPENDENCIES

StepRecord(key, outcome, c, r, target) ==
    [ key |-> key, outcome |-> outcome, base_null |-> (c.ctx.base = None),
      target |-> target, target_existed |-> Exists(disk, target),
      invoked |-> r.invoked, wrote |-> (r.disk # disk),
      slot |-> IF key \in COMMAND_MAPPING THEN SlotOf(key, r.ctx) ELSE None ]

\* lines 156-213: one iteration of the loop over ordered_actions
PA_Step(t) ==
    /\ call[t].pc = "loop"
    /\ LET c == call[t]
           key == c.ordered[c.idx]
           same == Res(c.ctx, disk, <<>>, {}, NoExc)
       IN
       IF key \notin COMMAND_MAPPING
       THEN \* lines 158-160: unknown key, continue
            LET n == AfterCommand(c, FALSE)
            IN  /\ queue' = ServiceLog(queue, <<"[WARN]", "Unknown action key, skipping.", key>>)
                /\ call' = [call EXCEPT ![t].pc = n.pc, ![t].idx = n.idx,
                                 ![t].steps = Append(c.steps,
                                     StepRecord(key, "unknown", c, same, None))]
                /\ disk' = disk
       ELSE IF RequiresBase(key) /\ c.ctx.base = None
       THEN \* lines 170-176: precondition failed, break
            /\ queue' = ServiceLogAll(queue,
                          << <<"---", "PLAY", "Executing", ActionName(key)>>,
                             <<"[ERROR]", "Cannot execute: Required base filename is missing">>,
                             <<"[ERROR]", "Ensure md runs successfully first.">> >>)
            /\ call' = [call EXCEPT ![t].pc = "report", ![t].success = FALSE,
                             ![t].steps = Append(c.steps,
                                 StepRecord(key, "precond", c, same, TargetPath(key, env, c.ctx)))]
            /\ disk' = disk
       ELSE \* lines 179-213: execute, then continue or break
            \E r \in Execute(key, env, c.ctx, disk) :
              LET n == AfterCommand(c, r.raised # NoExc)
              IN  /\ queue' = ServiceLogAll(queue,
                                << <<"---", "PLAY", "Executing", ActionName(key)>> >>
                                \o r.logs
                                \o << IF r.raised # NoExc
                                      THEN ExceptLog(r.raised, ActionName(key))
                                      ELSE <<"---", "CHECK", "Finished", ActionName(key)>> >>)
                  /\ call' = [call EXCEPT ![t].pc = n.pc, ![t].idx = n.idx,
                                   ![t].success = n.success, ![t].ctx = r.ctx,
                                   ![t].steps = Append(c.steps,
                                       StepRecord(key,
                                                  IF r.raised # NoExc THEN "raised" ELSE "returned",
                                                  c, r, TargetPath(key, env, c.ctx)))]
                  /\ disk' = r.disk
    /\ UNCHANGED <<busy, thread_of, threads, env, started, consumer, probe>>

\* lines 215-242
PA_Report(t) ==
    /\ call[t].pc = "report"
    /\ queue' = ServiceLogAll(queue,
                  IF call[t].success
                  THEN << <<"[INFO]", "=== Processing Completed ===">>,
                          <<"PARTY", "All selected actions completed successfully.">>,
                          IF Truthy(call[t].ctx.base)
                          THEN <<"[INFO]", "--- Generated Files (Check existence) ---">>
                          ELSE <<"[WARN]", "Base filename was not determined">> >>
                  ELSE << <<"[INFO]", "=== Processing Stopped ===">>,
                          <<"CROSS_MARK", "Processing stopped due to an error.">> >>)
    /\ call' = [call EXCEPT ![t].pc = "returned",
                            ![t].result = IF call[t].success THEN "True" ELSE "False"]
    /\ UNCHANGED <<busy, thread_of, threads, disk, env, started, consumer, probe>>

\* lines 156-213 as a function: the results the loop over order can reach from
\* entry i on, as pairs of the success flag and the disk the run leaves
RECURSIVE RunFrom(_, _, _, _, _)
RunFrom(order, i, e, ctx, dsk) ==
    IF i > Len(order) THEN { [success |-> TRUE, disk |-> dsk] }
    ELSE IF order[i] \notin COMMAND_MAPPING THEN RunFrom(order, i + 1, e, ctx, dsk)
    ELSE IF RequiresBase(order[i]) /\ ctx.base = None
    THEN { [success |-> FALSE, disk |-> dsk] }
    ELSE UNION { IF r.raised # NoExc
                 THEN { [success |-> FALSE, disk |-> r.disk] }
                 ELSE RunFrom(order, i + 1, e, r.ctx, r.disk) :
                 r \in Execute(order[i], e, ctx, dsk) }

\* ------------------------------------------------ direct calls of the service
\* The service is called on thread 0 with the view model's logger; the caller
\* empties the queue before each call.  The first call of a behaviour makes any
\* request; a later call, made on the output directory the earlier calls left,
\* requests one action.
CALLER == 0

CallRequests == IF started = 0 THEN Requests ELSE { <<a>> : a \in ActionIds }

Call ==
    /\ started < MaxRuns
    /\ call[CALLER].pc \in {"idle", "returned", "raised"}
    /\ \E actions \in CallRequests, audio \in AudioInputs, settings \in SettingsInputs :
         call' = [call EXCEPT ![CALLER] = NewCall(actions, audio, settings, disk)]
    /\ queue' = <<>>
    /\ started' = started + 1
    /\ UNCHANGED <<busy, thread_of, threads, disk, env, consumer, probe>>

Init ==
    /\ queue = <<>>
    /\ busy = [o \in Origins |-> FALSE]
    /\ thread_of = [o \in Origins |-> NoThread]
    /\ threads = <<>>
    /\ call = [t \in {CALLER} |-> IdleCall]
    /\ disk = [p \in {AUDIO_PATH} |-> 1]
    /\ env \in Envs
    /\ started = 0
    /\ consumer = [cmd |-> "none", received |-> <<>>, running |-> [o \in Origins |-> FALSE]]
    /\ probe = NoProbe

Next ==
    \/ Call
    \/ PA_Entry(CALLER)
    \/ PA_Preflight(CALLER)
    \/ PA_Construct(CALLER)
    \/ PA_Resolve(CALLER)
    \/ PA_Step(CALLER)
    \/ PA_Report(CALLER)

Spec == Init /\ [][Next]_vars

\* -------------------------------------------- a call made again, unchanged
\* The caller makes a call and, once it is over, makes it again with the same
\* arguments on the output directory the earlier call left.
FirstCall == started = 0 /\ Call

Recall ==
    /\ started > 0
    /\ started < MaxRuns
    /\ call[CALLER].pc \in {"returned", "raised"}
    /\ LET c == call[CALLER]
       IN  call' = [call EXCEPT ![CALLER] =
                      [ NewCall(c.actions, c.yandex_audio, c.settings, disk)
                          EXCEPT !.earlier = Append(c.earlier,
                                                    [steps |-> c.steps, result |-> c.result]) ]]
    /\ queue' = <<>>
    /\ started' = started + 1
    /\ UNCHANGED <<busy, thread_of, threads, disk, env, consumer, probe>>

NextRerun ==
    \/ FirstCall
    \/ Recall
    \/ PA_Entry(CALLER)
    \/ PA_Preflight(CALLER)
    \/ PA_Construct(CALLER)
    \/ PA_Resolve(CALLER)
    \/ PA_Step(CALLER)
    \/ PA_Report(CALLER)

SpecRerun == Init /\ [][NextRerun]_vars

\* ------------------------------------------- order resolution on long requests
\* One call with a request of up to MaxOrderLen actions, followed up to the
\* point where the loop over the resolved order would start.
OrderCall ==
    /\ started = 0
    /\ call[CALLER].pc = "idle"
    /\ \E actions \in LongRequests, settings \in SettingsInputs :
         call' = [call EXCEPT ![CALLER] = NewCall(actions, None, settings, disk)]
    /\ queue' = <<>>
    /\ started' = started + 1
    /\ UNCHANGED <<busy, thread_of, threads, disk, env, consumer, probe>>

NextOrder ==
    \/ OrderCall
    \/ PA_Entry(CALLER)
    \/ PA_Preflight(CALLER)
    \/ PA_Construct(CALLER)
    \/ PA_Resolve(CALLER)

SpecOrder == Init /\ [][NextOrder]_vars

\* ------------------------------------------------ commands/trim_media.py
TRIM_OUTPUT == <<"o", SEP, "t">>

MISSING_INPUT == <<SEP, "m">>

TrimInputs == {AUDIO_PATH, MISSING_INPUT}

TrimHeader(input_path) ==
    << <<"[TRIM]", "start of trimming", input_path>>, <<"[TRIM]", "start time">>,
       <<"[TRIM]", "end time">>, <<"[TRIM]", "output file">> >>

\* TrimMedia.execute: the outcomes it can have, as Res records without a
\* context.  is_valid_time_format is imported inside execute (line 46) from
\* utils.utils, which does not define it in this tree: the import may fail, or
\* the check may accept or refuse either time.
TrimMedia(e, dsk, input_path, output_path) ==
    LET head == TrimHeader(input_path)
        cmdlog == << <<"[TRIM]", "[DEBUG]", "running ffmpeg">> >>
        warn == IF Exists(dsk, output_path)
                THEN << <<"[TRIM]", "[WARN]", "output exists, will be overwritten">> >>
                ELSE <<>>
    IN
    IF ~Exists(dsk, input_path)
    THEN { Res(NoContext, dsk, head \o << <<"[TRIM]", "[ERROR]", "input not found">> >>,
               {}, "FileNotFoundError") }
    ELSE
      { Res(NoContext, dsk, head, {}, "ImportError"),
        Res(NoContext, dsk, head \o << <<"[TRIM]", "[ERROR]", "bad start time">> >>, {}, "ValueError"),
        Res(NoContext, dsk, head \o << <<"[TRIM]", "[ERROR]", "bad end time">> >>, {}, "ValueError") }
      \cup
      ( IF get_tool_path(e, "ffmpeg") = None
        THEN { Res(NoContext, dsk, head \o warn, {}, "FileNotFoundError") }
        ELSE
          { \* ffmpeg exits non-zero
            Res(NoContext, dsk,
                head \o warn \o cmdlog \o
                << <<"[TRIM]", "[ERROR]", "ffmpeg failed">>, <<"[TRIM]", "[ERROR]", "command">>,
                   <<"[TRIM]", "[ERROR]", "stderr">> >>,
                {"ffmpeg"}, "CalledProcessError"),
            \* ffmpeg exits 0 and wrote the output
            Res(NoContext, WriteFile(dsk, output_path),
                head \o warn \o cmdlog \o
                << <<"[TRIM]", "[DEBUG]", "ffmpeg stderr">>, <<"[TRIM]", "[DEBUG]", "ffmpeg stdout">>,
                   <<"[TRIM]", "[INFO]", "file trimmed">> >>,
                {"ffmpeg"}, NoExc) }
          \cup
          ( IF Exists(dsk, output_path)
            THEN {}
            ELSE \* ffmpeg exits 0 but the output is missing
              { Res(NoContext, dsk,
                    head \o warn \o cmdlog \o
                    << <<"[TRIM]", "[DEBUG]", "ffmpeg stderr">>, <<"[TRIM]", "[DEBUG]", "ffmpeg stdout">>,
                       <<"[TRIM]", "[ERROR]", "output not found after ffmpeg">>,
                       <<"[TRIM]", "[ERROR]", "unexpected error">> >>,
                    {"ffmpeg"}, "FileNotFoundError") } ) )

\* ---------------------------------------------- viewmodel/video_viewmodel.py
\* a thread created by run / run_trim; put is bookkeeping: the status events
\* the thread has enqueued
WorkerThread(origin, input_path) ==
    [ origin |-> origin, pc |-> "op", success |-> FALSE, exc |-> NoExc,
      input_path |-> input_path, put |-> <<>> ]

Tids == 1..Len(threads)

\* Thread.is_alive()
is_alive(t) == threads[t].pc # "done"

\* variant: the flag alone decides, dead thread or not
IsBusy_FlagOnly(o) == busy[o]

\* variant: a running URL task is not seen as busy
IsBusy_UrlBlind(o) ==
    o = "trim" /\ busy[o] /\ thread_of[o] # NoThread /\ is_alive(thread_of[o])

\* variant: the busy check never fires
IsBusy_Never(o) == FALSE

\* variant: a running trim is not seen as busy
IsBusy_TrimBlind(o) ==
    o = "url" /\ busy[o] /\ thread_of[o] # NoThread /\ is_alive(thread_of[o])

\* the condition of lines 99, 101, 137, 139
IsBusy(o) == busy[o] /\ thread_of[o] # NoThread /\ is_alive(thread_of[o])

\* variant: a rejected start says nothing
RejectStart_Silent(q, msg, origin) == q

\* lines 100, 102, 138, 140
RejectStart(q, msg, origin) == _log_message_to_queue(q, msg, origin)

\* variant: the worker always reports 'finished'
TerminalStatus_AlwaysFinished(success, origin) == StatusEvent("INFO", "finished", origin)

\* lines 123-126, 165-168
TerminalStatus(success, origin) ==
    StatusEvent(IF success THEN "INFO" ELSE "ERROR",
                IF success THEN "finished" ELSE "error", origin)

\* variant: an accepted start announces nothing
AnnounceRunning_Skipped(q, origin) == q

\* lines 110, 148: the 'running' status, put by run / run_trim themselves
AnnounceRunning(q, origin) == Append(q, StatusEvent("INFO", "running", origin))

BridgeRequests == { <<"md">>, <<"tp">> }

BridgeSettings == { st \in SettingsInputs : st.values = SettingsValues(L_EN, L_RU, L_EN) /\ ~st.extra }

\* lines 96-131: the body of VideoViewModel.run
VM_run ==
    /\ started < MaxStarts
    /\ started' = started + 1
    /\ IF IsBusy("url")
       THEN /\ queue' = RejectStart(queue, <<"[WARN]", "URL task already running">>, "url")
            /\ UNCHANGED <<busy, thread_of, threads, call>>
       ELSE IF IsBusy("trim")
       THEN /\ queue' = RejectStart(queue, <<"[WARN]", "wait for trimming to finish">>, "url")
            /\ UNCHANGED <<busy, thread_of, threads, call>>
       ELSE \E actions \in BridgeRequests, settings \in BridgeSettings :
            LET tid == Len(threads) + 1
            IN  /\ busy' = [busy EXCEPT !["url"] = TRUE]
                /\ queue' = AnnounceRunning(queue, "url")
                /\ threads' = Append(threads, WorkerThread("url", None))
                /\ thread_of' = [thread_of EXCEPT !["url"] = tid]
                /\ call' = (tid :> NewCall(actions, None, settings, disk)) @@ call
    /\ UNCHANGED <<disk, env, probe>>

\* VideoViewModel.run, called on the thread of a consumer that keeps no
\* state of its own besides the last command it gave
Run == VM_run /\ consumer' = [consumer EXCEPT !.cmd = "url"]

\* lines 134-173: the body of VideoViewModel.run_trim
VM_run_trim ==
    /\ started < MaxStarts
    /\ started' = started + 1
    /\ IF IsBusy("trim")
       THEN /\ queue' = RejectStart(queue, <<"[WARN]", "trim task already running">>, "trim")
            /\ UNCHANGED <<busy, thread_of, threads>>
       ELSE IF IsBusy("url")
       THEN /\ queue' = RejectStart(queue, <<"[WARN]", "wait for URL processing to finish">>, "trim")
            /\ UNCHANGED <<busy, thread_of, threads>>
       ELSE \E input_path \in TrimInputs :
            /\ busy' = [busy EXCEPT !["trim"] = TRUE]
            /\ queue' = AnnounceRunning(queue, "trim")
            /\ threads' = Append(threads, WorkerThread("trim", input_path))
            /\ thread_of' = [thread_of EXCEPT !["trim"] = Len(threads) + 1]
    /\ UNCHANGED <<call, disk, env, probe>>

\* VideoViewModel.run_trim, called by such a consumer
RunTrim == VM_run_trim /\ consumer' = [consumer EXCEPT !.cmd = "trim"]

\* line 116: perform_actions returned
Task_Returned(t) ==
    /\ threads[t].origin = "url" /\ threads[t].pc = "op"
    /\ call[t].pc = "returned"
    /\ threads' = [threads EXCEPT ![t].pc = "put", ![t].success = (call[t].result = "True")]
    /\ UNCHANGED <<queue, busy, thread_of, call, disk, env, started, consumer, probe>>

\* lines 117-121: perform_actions raised
Task_Except(t) ==
    /\ threads[t].origin = "url" /\ threads[t].pc = "op"
    /\ call[t].pc = "raised"
    /\ queue' = _log_message_to_queue(
                  _log_message_to_queue(queue, <<"[ERROR]", "critical error in VideoService">>, "url"),
                  <<"[DEBUG]", "Traceback">>, "url")
    /\ threads' = [threads EXCEPT ![t].pc = "put", ![t].success = FALSE,
                                  ![t].exc = "AttributeError"]
    /\ UNCHANGED <<busy, thread_of, call, disk, env, started, consumer, probe>>

\* lines 151-155: self.trimmer.execute(...); the trimmer logs through the
\* logger it was constructed with
Trim_Execute(t) ==
    /\ threads[t].origin = "trim" /\ threads[t].pc = "op"
    /\ \E r \in TrimMedia(env, disk, threads[t].input_path, TRIM_OUTPUT) :
         /\ queue' = ServiceLogAll(queue, r.logs)
         /\ disk' = r.disk
         /\ threads' = [threads EXCEPT ![t].pc = IF r.raised = NoExc THEN "put" ELSE "except",
                                       ![t].success = (r.raised = NoExc),
                                       ![t].exc = r.raised]
    /\ UNCHANGED <<busy, thread_of, call, env, started, consumer, probe>>

\* lines 156-162
Trim_Except(t) ==
    /\ threads[t].origin = "trim" /\ threads[t].pc = "except"
    /\ LET q1 == _log_message_to_queue(queue, <<"[ERROR]", "error while trimming">>, "trim")
       IN  queue' = IF threads[t].exc \in {"FileNotFoundError", "ValueError", "CalledProcessError"}
                    THEN q1
                    ELSE _log_message_to_queue(q1, <<"[DEBUG]", "Traceback">>, "trim")
    /\ threads' = [threads EXCEPT ![t].pc = "put", ![t].success = FALSE]
    /\ UNCHANGED <<busy, thread_of, call, disk, env, started, consumer, probe>>

\* lines 123-127, 164-168: finally, the terminal status event
Task_Finally_Put(t) ==
    /\ threads[t].pc = "put"
    /\ LET ev == TerminalStatus(threads[t].success, threads[t].origin)
       IN  /\ queue' = Append(queue, ev)
           /\ threads' = [threads EXCEPT ![t].pc = "clear", ![t].put = Append(@, ev)]
    /\ UNCHANGED <<busy, thread_of, call, disk, env, started, consumer, probe>>

\* variant: the worker logs once more after its terminal status
Task_Finally_Clear_Logs(t) ==
    /\ threads[t].pc = "clear"
    /\ busy' = [busy EXCEPT ![threads[t].origin] = FALSE]
    /\ threads' = [threads EXCEPT ![t].pc = "done"]
    /\ queue' = _log_message_to_queue(queue, <<"[INFO]", "task ended">>, threads[t].origin)
    /\ UNCHANGED <<thread_of, call, disk, env, started, consumer, probe>>

\* variant: the worker ends without resetting its flag
Task_Finally_Clear_Forgets(t) ==
    /\ threads[t].pc = "clear"
    /\ threads' = [threads EXCEPT ![t].pc = "done"]
    /\ UNCHANGED <<queue, busy, thread_of, call, disk, env, started, consumer, probe>>

\* lines 128, 169: finally, the flag; it is the last statement of the target
\* function, the thread ends with it
Task_Finally_Clear(t) ==
    /\ threads[t].pc = "clear"
    /\ busy' = [busy EXCEPT ![threads[t].origin] = FALSE]
    /\ threads' = [threads EXCEPT ![t].pc = "done"]
    /\ UNCHANGED <<queue, thread_of, call, disk, env, started, consumer, probe>>

\* variant: the newest event is handed out first
QueueGet_Newest(q) == [event |-> q[Len(q)], rest |-> SubSeq(q, 1, Len(q) - 1)]

\* variant: the oldest event is returned but stays in the queue
QueueGet_Peek(q) == [event |-> Head(q), rest |-> q]

\* queue.Queue.get_nowait on a queue that is not empty: the oldest event
QueueGet(q) == [event |-> Head(q), rest |-> Tail(q)]

\* lines 176-187: get_message_from_queue, called on the consumer thread;
\* received is the list of events the consumer has been handed so far
Drain ==
    /\ IF queue = <<>>
       THEN \* queue.Empty: None is returned
            UNCHANGED <<queue, consumer>>
       ELSE /\ consumer' = [consumer EXCEPT !.received = Append(@, QueueGet(queue).event)]
            /\ queue' = QueueGet(queue).rest
    /\ UNCHANGED <<busy, thread_of, threads, call, disk, env, started, probe>>

UrlWorkers == DOMAIN call \ {CALLER}

NextBridge ==
    \/ Run
    \/ RunTrim
    \/ Drain
    \/ \E t \in UrlWorkers : PA_Entry(t)
    \/ \E t \in UrlWorkers : PA_Preflight(t)
    \/ \E t \in UrlWorkers : PA_Construct(t)
    \/ \E t \in UrlWorkers : PA_Resolve(t)
    \/ \E t \in UrlWorkers : PA_Step(t)
    \/ \E t \in UrlWorkers : PA_Report(t)
    \/ \E t \in UrlWorkers : Task_Returned(t)
    \/ \E t \in UrlWorkers : Task_Except(t)
    \/ \E t \in Tids : Trim_Execute(t)
    \/ \E t \in Tids : Trim_Except(t)
    \/ \E t \in Tids : Task_Finally_Put(t)
    \/ \E t \in Tids : Task_Finally_Clear(t)

\* every tool on the PATH, or none
InitBridge == Init /\ env.which \in {ToolNames, {}}

SpecBridge == InitBridge /\ [][NextBridge]_vars

\* the steps thread t takes by itself once it has been started
WorkerStep(t) ==
    \/ /\ t \in UrlWorkers
       /\ \/ PA_Entry(t)
          \/ PA_Preflight(t)
          \/ PA_Construct(t)
          \/ PA_Resolve(t)
          \/ PA_Step(t)
          \/ PA_Report(t)
          \/ Task_Returned(t)
          \/ Task_Except(t)
    \/ /\ t \in Tids
       /\ \/ Trim_Execute(t)
          \/ Trim_Except(t)
          \/ Task_Finally_Put(t)
          \/ Task_Finally_Clear(t)

\* a started thread is scheduled again and again, and every command and
\* external tool it waits for comes back
\* as InitBridge, with all but MaxLiveStarts of the start commands used up
InitLive ==
    /\ queue = <<>>
    /\ busy = [o \in Origins |-> FALSE]
    /\ thread_of = [o \in Origins |-> NoThread]
    /\ threads = <<>>
    /\ call = [t \in {CALLER} |-> IdleCall]
    /\ disk = [p \in {AUDIO_PATH} |-> 1]
    /\ env \in { e \in Envs : e.which \in {ToolNames, {}} }
    /\ started = MaxStarts - MaxLiveStarts
    /\ consumer = [cmd |-> "none", received |-> <<>>, running |-> [o \in Origins |-> FALSE]]
    /\ probe = NoProbe

SpecBridgeFair ==
    InitLive /\ [][NextBridge]_vars /\ \A t \in 1..MaxLiveStarts : WF_vars(WorkerStep(t))

\* ------------------------------------- path derivation on a run's context
\* One run of a short request under settings whose two format values vary; at
\* any point after the context has been constructed an accessor of the context
\* may be called, with arguments of the sets below.  probe keeps the context as
\* it was at the call, the arguments and the value returned.
PartNames == { <<"m">>, <<"x">>, <<"m", DOT, "x">> }

SuffixInputs == {<<>>} \cup PartNames \cup { <<DOT>> \o n : n \in PartNames }

ExtInputs == SuffixInputs \cup { <<" ", "x">>, <<DOT, "x", " ">>, <<" ">> }

FormatInputs == { <<>>, <<"x">>, <<DOT, "x">> }

LangInputs == { None, <<>>, L_EN, <<"x">> }

PathSettings ==
    { [kind |-> "dict", extra |-> FALSE,
       values |-> [SettingsValues(L_EN, L_RU, L_EN) EXCEPT !.subtitle_format = sf,
                                                          !.video_format_ext = vf]] :
        sf \in FormatInputs, vf \in FormatInputs }

PathCall ==
    /\ started = 0
    /\ call[CALLER].pc = "idle"
    /\ \E actions \in { <<"md">>, <<"dv">> }, settings \in PathSettings :
         call' = [call EXCEPT ![CALLER] = NewCall(actions, None, settings, disk)]
    /\ queue' = <<>>
    /\ started' = started + 1
    /\ UNCHANGED <<busy, thread_of, threads, disk, env, consumer, probe>>

Probe(fn, args, result) ==
    /\ call[CALLER].ctx # NoContext
    /\ probe' = [fn |-> fn, ctx |-> call[CALLER].ctx, args |-> args, result |-> result]
    /\ UNCHANGED <<queue, busy, thread_of, threads, call, disk, env, started, consumer>>

Call_get_path ==
    \E suffix \in SuffixInputs, ext \in ExtInputs :
      Probe("_get_path", <<suffix, ext>>, _get_path(call[CALLER].ctx, suffix, ext))

Call_get_metadata_filepath ==
    \E lang \in LangInputs :
      Probe("get_metadata_filepath", <<lang>>, get_metadata_filepath(call[CALLER].ctx, lang))

Call_get_subtitle_filepath ==
    \E lang \in LangInputs :
      Probe("get_subtitle_filepath", <<lang>>, get_subtitle_filepath(call[CALLER].ctx, lang))

Call_get_video_filepath ==
    Probe("get_video_filepath", <<>>, get_video_filepath(call[CALLER].ctx))

Call_get_merged_video_filepath ==
    Probe("get_merged_video_filepath", <<>>, get_merged_video_filepath(call[CALLER].ctx))

Call_get_thumbnail_filepath ==
    Probe("get_thumbnail_filepath", <<>>, get_thumbnail_filepath(call[CALLER].ctx))

NextPath ==
    \/ PathCall
    \/ PA_Entry(CALLER)
    \/ PA_Preflight(CALLER)
    \/ PA_Construct(CALLER)
    \/ PA_Resolve(CALLER)
    \/ PA_Step(CALLER)
    \/ PA_Report(CALLER)
    \/ Call_get_path
    \/ Call_get_metadata_filepath
    \/ Call_get_subtitle_filepath
    \/ Call_get_video_filepath
    \/ Call_get_merged_video_filepath
    \/ Call_get_thumbnail_filepath

InitPath == Init /\ env.which = ToolNames

SpecPath == InitPath /\ [][NextPath]_vars

\* --------------------------------------------- tool resolution with overrides
\* The constants module may name an executable for either tool; the file named
\* may or may not be an executable file.  get_tool_path and the preflight check
\* are called in such an environment.
FFMPEG_OVERRIDE == <<SEP, "f">>

YTDLP_OVERRIDE == <<SEP, "y">>

EnvsConfigured ==
    { [which |-> w, constants |-> [FFMPEG_PATH |-> f, YTDLP_PATH |-> y],
       executables |-> x, video |-> v] :
        w \in SUBSET ToolNames, f \in {None, FFMPEG_OVERRIDE}, y \in {None, YTDLP_OVERRIDE},
        x \in SUBSET {FFMPEG_OVERRIDE, YTDLP_OVERRIDE}, v \in Videos }

LibraryCall(fn, args, result) ==
    /\ probe' = [fn |-> fn, args |-> args, result |-> result]
    /\ UNCHANGED <<queue, busy, thread_of, threads, call, disk, env, started, consumer>>

Call_get_tool_path ==
    \E tool_name \in ToolNames :
      LibraryCall("get_tool_path", <<tool_name>>, get_tool_path(env, tool_name))

Call_check_tool_availability ==
    \E actions \in Requests :
      LibraryCall("_check_tool_availability", <<actions>>,
                  _check_tool_availability(env, actions))

NextTools ==
    \/ Call_get_tool_path
    \/ Call_check_tool_availability

InitTools ==
    /\ queue = <<>>
    /\ busy = [o \in Origins |-> FALSE]
    /\ thread_of = [o \in Origins |-> NoThread]
    /\ threads = <<>>
    /\ call = [t \in {CALLER} |-> IdleCall]
    /\ disk = [p \in {AUDIO_PATH} |-> 1]
    /\ env \in EnvsConfigured
    /\ started = 0
    /\ consumer = [cmd |-> "none", received |-> <<>>, running |-> [o \in Origins |-> FALSE]]
    /\ probe = NoProbe

SpecTools == InitTools /\ [][NextTools]_vars

\* ========================================================== properties
IdentityDependent == {"dv", "ds", "dt", "da", "tm"}

Executed(st) == st.outcome \in {"returned", "raised"}

\* the order has been resolved in activation c
Resolved(c) == c.idx >= 1

\* C1: abort propagation.  In every activation, a loop iteration whose command
\* raised is the last iteration of that run: no later command is executed, the
\* run is marked failed at once and, when it returns, it returns False.
C1_AbortPropagation ==
    \A t \in DOMAIN call :
      LET c == call[t]
      IN  \A i \in 1..Len(c.steps) :
            c.steps[i].outcome = "raised" =>
              /\ i = Len(c.steps)
              /\ c.pc \in {"report", "returned"}
              /\ ~c.success
              /\ (c.pc = "returned" => c.result = "False")

\* a run returned after a command raised while actions were still to come
C1_Witness ==
    \E t \in DOMAIN call :
      LET c == call[t]
      IN  /\ c.pc = "returned"
          /\ c.steps # <<>>
          /\ c.steps[Len(c.steps)].outcome = "raised"
          /\ Len(c.steps) < Len(c.ordered)

\* the operation a worker ran reported success: perform_actions returned True,
\* TrimMedia.execute returned
OperationSucceeded(t) ==
    IF threads[t].origin = "url"
    THEN call[t].pc = "returned" /\ call[t].result = "True"
    ELSE threads[t].exc = NoExc

IsTerminalStatus(ev, o) ==
    ev.type = "status" /\ ev.origin = o /\ ev.data \in {"finished", "error"}

\* the worker has passed the point where it enqueues its terminal status
PastFinally(t) == threads[t].pc \in {"clear", "done"}

\* C2: one terminal status per accepted start.  Every worker enqueues no
\* terminal status before its operation has ended and exactly one, tagged with
\* its origin, once it has; it is 'finished' exactly when the operation reported
\* success and 'error' otherwise, also when perform_actions raised; and the
\* queue never holds more terminal events of an origin than workers of that
\* origin have ended.
C2_OneTerminalStatus ==
    /\ \A t \in Tids :
         LET th == threads[t]
         IN  /\ Len(th.put) = (IF PastFinally(t) THEN 1 ELSE 0)
             /\ \A i \in 1..Len(th.put) :
                  /\ IsTerminalStatus(th.put[i], th.origin)
                  /\ th.put[i].data = "finished" <=> OperationSucceeded(t)
                  /\ th.put[i].level = (IF OperationSucceeded(t) THEN "INFO" ELSE "ERROR")
    /\ \A o \in Origins :
         Cardinality({ i \in 1..Len(queue) : IsTerminalStatus(queue[i], o) })
           <= Cardinality({ t \in Tids : threads[t].origin = o /\ PastFinally(t) })

\* a worker ended after perform_actions raised, having reported 'error' once
C2_Witness ==
    \E t \in Tids :
      /\ threads[t].origin = "url"
      /\ threads[t].pc = "done"
      /\ call[t].pc = "raised"
      /\ Len(threads[t].put) = 1
      /\ threads[t].put[1].data = "error"

InTask(t) == threads[t].pc # "done"

\* C4: at most one worker per origin.  In every state at most one thread of an
\* origin is inside its task, and perform_actions runs on worker threads only:
\* the consumer thread holds no activation of it and has executed no step.
C4_OneWorkerPerOrigin ==
    /\ \A o \in Origins :
         Cardinality({ t \in Tids : threads[t].origin = o /\ InTask(t) }) <= 1
    /\ call[CALLER].pc = "idle"
    /\ call[CALLER].steps = <<>>
    /\ \A t \in DOMAIN call \ {CALLER} : t \in Tids /\ threads[t].origin = "url"

\* a second worker of an origin is executing after the first has ended
C4_Witness ==
    /\ Len(threads) = 2
    /\ threads[1].origin = threads[2].origin
    /\ threads[1].pc = "done"
    /\ threads[2].pc = "op"
    /\ threads[2].origin = "url" => call[2].steps # <<>>

\* C5: when the request holds an identity-dependent action and not 'md', the
\* resolved order starts with 'md'.
C5_MdInsertedFirst ==
    \A t \in DOMAIN call :
      LET c == call[t]
      IN  ( /\ Resolved(c)
            /\ Elems(c.actions) \cap IdentityDependent # {}
            /\ "md" \notin Elems(c.actions) )
          => c.ordered[1] = "md"

C5_Witness ==
    \E t \in DOMAIN call :
      LET c == call[t]
      IN  /\ Resolved(c)
          /\ Elems(c.actions) \cap IdentityDependent # {}
          /\ "md" \notin Elems(c.actions)
          /\ Len(c.actions) >= 2

\* s without the entries equal to x
Without(s, x) == SelectSeq(s, LAMBDA a : a # x)

\* C6: when the request holds an identity-dependent action and 'md' at a
\* position other than the first, the resolved order starts with 'md' and the
\* other actions follow in the order the request gave them.
C6_MdMovedFirstStable ==
    \A t \in DOMAIN call :
      LET c == call[t]
      IN  ( /\ Resolved(c)
            /\ Elems(c.actions) \cap IdentityDependent # {}
            /\ "md" \in Elems(c.actions)
            /\ c.actions[1] # "md" )
          => /\ c.ordered[1] = "md"
             /\ Tail(c.ordered) = Without(c.actions, "md")

\* 'md' was requested between two other actions
C6_Witness ==
    \E t \in DOMAIN call :
      LET c == call[t]
      IN  /\ Resolved(c)
          /\ Len(c.actions) = 3
          /\ c.actions[2] = "md"
          /\ c.actions[1] \in IdentityDependent

\* C7: preflight failure.  When a tool required by a requested action cannot
\* be resolved, the run returns False with no context constructed, no command
\* executed, no base name set and the disk as it was at the call.
C7_PreflightFailure ==
    \A t \in DOMAIN call :
      LET c == call[t]
      IN  ( /\ c.pc \notin {"idle", "entry", "preflight", "raised"}
            /\ MissingTools(env, c.actions) # {} )
          => /\ c.pc = "returned"
             /\ c.result = "False"
             /\ c.ctx = NoContext
             /\ c.steps = <<>>
             /\ c.ordered = <<>>
             /\ disk = c.disk0

\* two actions were requested and a tool of one of them is missing
C7_Witness ==
    \E t \in DOMAIN call :
      LET c == call[t]
      IN  /\ c.pc = "returned"
          /\ Len(c.actions) >= 2
          /\ MissingTools(env, c.actions) # {}
          /\ \E a \in Elems(c.actions) : TOOL_DEPENDENCIES(a) \cap MissingTools(env, c.actions) = {}

\* every entry of the order was reached, and none raised or lacked the base name
AllStepsSucceeded(c) ==
    /\ Len(c.steps) = Len(c.ordered)
    /\ \A i \in 1..Len(c.steps) :
         /\ c.steps[i].key = c.ordered[i]
         /\ c.steps[i].outcome \in {"returned", "unknown"}

\* C8: a run called with a settings mapping returns True exactly when the
\* preflight passed, the context was constructed and every step of the order
\* executed without raising and without a failed precondition (an id that no
\* command is registered for is passed over and is not a step); otherwise it
\* returns False.
C8_CompletedIff ==
    \A t \in DOMAIN call :
      LET c == call[t]
      IN  c.pc = "returned" =>
            /\ c.result \in {"True", "False"}
            /\ c.result = "True" <=>
                 ( /\ MissingTools(env, c.actions) = {}
                   /\ c.ctx # NoContext
                   /\ AllStepsSucceeded(c) )

\* a run of two executed commands returned True
C8_Witness ==
    \E t \in DOMAIN call :
      LET c == call[t]
      IN  /\ c.pc = "returned"
          /\ c.result = "True"
          /\ Len(c.steps) >= 2
          /\ \A i \in 1..Len(c.steps) : c.steps[i].outcome = "returned"

\* C9: idempotent skip.  Every command that is executed while its target file
\* is already on disk invokes no external tool, leaves the disk as it is and
\* records the path of the existing file in its context slot.
C9_IdempotentSkip ==
    \A t \in DOMAIN call :
      \A i \in 1..Len(call[t].steps) :
        LET st == call[t].steps[i]
        IN  (Executed(st) /\ st.target_existed) =>
              /\ st.invoked = {}
              /\ ~st.wrote
              /\ st.slot = st.target

\* C10: base-name precondition.  An identity-dependent command is executed
\* only with a base name set; an iteration that finds the base name missing
\* executes nothing, is the last iteration and fails the run.
C10_BasePrecondition ==
    \A t \in DOMAIN call :
      LET c == call[t]
      IN  \A i \in 1..Len(c.steps) :
            c.steps[i].key \in IdentityDependent =>
              /\ Executed(c.steps[i]) => ~c.steps[i].base_null
              /\ c.steps[i].base_null =>
                   /\ c.steps[i].outcome = "precond"
                   /\ i = Len(c.steps)
                   /\ ~c.success
                   /\ c.pc \in {"report", "returned"}

\* an identity-dependent command was executed after 'md' set the base name
C10_Witness ==
    \E t \in DOMAIN call :
      \E i \in 1..Len(call[t].steps) :
        /\ call[t].steps[i].key \in IdentityDependent
        /\ Executed(call[t].steps[i])
        /\ ~call[t].steps[i].base_null

\* C11: every accepted start leads to its terminal status and a cleared flag.
\* Under weak fairness of the worker, each thread that was started reaches the
\* state where it has enqueued one terminal status of its origin and that
\* origin's flag is clear; and a flag goes from set to clear only in a step of
\* a thread of that origin that has already enqueued its terminal status.
C11_EventuallyTerminal ==
    /\ \A t \in 1..MaxLiveStarts :
         (t \in Tids) ~>
           ( /\ t \in Tids
             /\ threads[t].pc = "done"
             /\ Len(threads[t].put) = 1
             /\ IsTerminalStatus(threads[t].put[1], threads[t].origin)
             /\ ~busy[threads[t].origin] )
    /\ [][ \A o \in Origins :
             (busy[o] /\ ~busy'[o]) =>
               \E t \in Tids :
                 /\ threads[t].origin = o
                 /\ threads[t].pc = "clear" /\ threads'[t].pc = "done"
                 /\ Len(threads[t].put) = 1 ]_vars

\* a trim worker has ended after a successful trim and its flag is clear
C11_Witness ==
    \E t \in Tids :
      /\ threads[t].origin = "trim"
      /\ threads[t].pc = "done"
      /\ threads[t].exc = NoExc
      /\ ~busy["trim"]
      /\ Exists(disk, TRIM_OUTPUT)

\* every event put so far, oldest first: those the consumer has been handed,
\* then those still in the queue
Events == consumer.received \o queue

StatusEvents(o) == SelectSeq(Events, LAMBDA ev : ev.type = "status" /\ ev.origin = o)

\* C12: 'running' comes first.  The status events of an origin alternate
\* 'running', terminal, 'running', ..., there is one 'running' per thread of the
\* origin from the state in which run / run_trim returns, and the step that
\* accepts a start puts the 'running' status at the end of the queue while the
\* new worker has not yet taken a step.
C12_RunningFirst ==
    /\ [] \A o \in Origins :
            LET st == StatusEvents(o)
            IN  /\ \A i \in 1..Len(st) :
                     IF i % 2 = 1 THEN st[i].data = "running"
                     ELSE st[i].data \in {"finished", "error"}
                /\ Cardinality({ i \in 1..Len(st) : st[i].data = "running" })
                     = Cardinality({ t \in Tids : threads[t].origin = o })
    /\ [][ Len(threads') = Len(threads) + 1 =>
             LET t == Len(threads')
                 o == threads'[t].origin
             IN  /\ queue' = Append(queue, [type |-> "status", level |-> "INFO",
                                            data |-> "running", origin |-> o])
                 /\ threads'[t].pc = "op"
                 /\ threads'[t].put = <<>>
                 /\ (o = "url" => call'[t].pc = "entry" /\ call'[t].steps = <<>>) ]_vars

\* a second run of an origin is announced after the first one's terminal status
C12_Witness ==
    \E o \in Origins :
      /\ Len(StatusEvents(o)) = 3
      /\ StatusEvents(o)[3].data = "running"
      /\ consumer.received # <<>>

\* s with only the events tagged o
OfOrigin(s, o) == SelectSeq(s, LAMBDA ev : ev.origin = o)

IsPrefix(s, u) == Len(s) <= Len(u) /\ SubSeq(u, 1, Len(s)) = s

\* C13: per-origin FIFO.  In every step, whether a push by a worker, a push by
\* run / run_trim or a pop by the consumer, the events of each origin that were
\* handed to the consumer followed by those still queued stay what they were,
\* possibly with new events at the end: the consumer is handed the events of
\* an origin in the order they were put, none lost, doubled or moved.
C13_PerOriginFifo ==
    [][ \A o \in Origins :
          IsPrefix(OfOrigin(consumer.received \o queue, o),
                   OfOrigin(consumer'.received \o queue', o)) ]_vars

\* the consumer has popped events of both origins while a worker is pushing
C13_Witness ==
    /\ \A o \in Origins : Len(OfOrigin(consumer.received, o)) >= 2
    /\ Len(queue) >= 2
    /\ \E t \in Tids : threads[t].pc = "op"

\* thread t takes a step
StepOf(t) ==
    \/ threads'[t] # threads[t]
    \/ t \in DOMAIN call /\ call'[t] # call[t]

\* the events a step adds to the queue
Added == { queue'[i] : i \in (Len(queue) + 1)..Len(queue') }

\* C14: origin tags of log events.  Every log event that a worker puts while
\* it executes its operation (perform_actions for 'url', TrimMedia.execute for
\* 'trim') carries the origin of that worker.
C14_LogOriginTag ==
    [][ \A t \in Tids :
          (threads[t].pc = "op" /\ StepOf(t)) =>
            \A ev \in Added : ev.type = "log" => ev.origin = threads[t].origin ]_vars

\* a start command for origin o is handled in this step
StartOf(o) == started' = started + 1 /\ consumer'.cmd = o

Accepted(o) ==
    /\ busy' = [busy EXCEPT ![o] = TRUE]
    /\ Len(threads') = Len(threads) + 1
    /\ threads'[Len(threads')].origin = o
    /\ SubSeq(threads', 1, Len(threads)) = threads
    /\ queue' = Append(queue, [type |-> "status", level |-> "INFO",
                               data |-> "running", origin |-> o])

Rejected(o) ==
    /\ busy' = busy
    /\ threads' = threads
    /\ thread_of' = thread_of
    /\ Len(queue') = Len(queue) + 1
    /\ SubSeq(queue', 1, Len(queue)) = queue
    /\ queue'[Len(queue')].type = "log"
    /\ queue'[Len(queue')].level = "WARN"
    /\ queue'[Len(queue')].origin = o

Derived(ctx) ==
    [ video_path |-> get_video_filepath(ctx),
      subtitle_path |-> get_subtitle_filepath(ctx, ctx.subtitle_lang),
      translated_subtitle_path |-> get_subtitle_filepath(ctx, ctx.target_lang),
      metadata_path |-> get_metadata_filepath(ctx, None),
      translated_metadata_path |-> get_metadata_filepath(ctx, ctx.target_lang),
      merged_video_path |-> get_merged_video_filepath(ctx),
      thumbnail_path |-> get_thumbnail_filepath(ctx) ]

ArtifactSlots == DOMAIN Derived(NewContext(URL, None, OUTPUT_DIR, SettingsValues(L_EN, L_RU, L_EN)))

\* C16: stored paths are derived paths.  In every state of a run, every
\* artifact slot of the context that is not null holds the path its accessor
\* derives from the output directory, the base name and the settings.
C16_SlotsAreDerived ==
    \A t \in DOMAIN call :
      LET ctx == call[t].ctx
      IN  ctx # NoContext =>
            \A f \in ArtifactSlots : ctx[f] # None => ctx[f] = Derived(ctx)[f]

\* the action whose command fills an artifact slot
ProducerOf(f) ==
    CASE f = "video_path" -> "dv"
      [] f = "subtitle_path" -> "ds"
      [] f = "translated_subtitle_path" -> "dt"
      [] f = "metadata_path" -> "md"
      [] f = "translated_metadata_path" -> "tm"
      [] f = "merged_video_path" -> "da"
      [] f = "thumbnail_path" -> "tp"

\* C17: slots are filled by success only.  In every state of a run, an artifact
\* slot of the context is not null only if the command that produces the
\* artifact has been executed in this run and returned without raising.
C17_SlotNeedsSuccess ==
    \A t \in DOMAIN call :
      LET c == call[t]
      IN  c.ctx # NoContext =>
            \A f \in ArtifactSlots :
              c.ctx[f] # None =>
                \E i \in 1..Len(c.steps) :
                  c.steps[i].key = ProducerOf(f) /\ c.steps[i].outcome = "returned"

\* the identity step has been executed in activation c
IdentityStepRan(c) ==
    \E i \in 1..Len(c.steps) : c.steps[i].key = "md" /\ Executed(c.steps[i])

AccessorNames ==
    {"get_metadata_filepath", "get_subtitle_filepath", "get_video_filepath",
     "get_merged_video_filepath", "get_thumbnail_filepath"}

\* C18: no path without a base name.  An artifact path accessor called on a
\* context whose base name is null returns null, whatever its argument and the
\* format settings are, and the base name of a run's context is null from the
\* construction of the context until the identity step is executed.
C18_NullWhileNoBase ==
    /\ (probe.fn \in AccessorNames \cup {"_get_path"} /\ probe.ctx.base = None)
         => probe.result = None
    /\ \A t \in DOMAIN call :
         (call[t].ctx # NoContext /\ ~IdentityStepRan(call[t])) => call[t].ctx.base = None

C18_Witness ==
    /\ probe.fn = "get_subtitle_filepath"
    /\ probe.args = <<L_EN>>
    /\ probe.ctx.base = None
    /\ probe.ctx.subtitle_format = <<DOT, "x">>
    /\ probe.result = None
    /\ call[CALLER].ctx # NoContext
    /\ call[CALLER].ctx.base # None

\* a part without its leading '.', and a part behind its one separator
Bare(p) == IF StartsWith(p, DOT) THEN Tail(p) ELSE p

Sep(n) == IF n = <<>> THEN <<>> ELSE <<DOT>> \o n

\* the same part passed the other way: with a leading '.' or without it
Toggle(p) ==
    IF p = <<>> THEN p ELSE IF StartsWith(p, DOT) THEN Tail(p) ELSE <<DOT>> \o p

PathProbed == probe.fn = "_get_path" /\ Truthy(probe.ctx.base)

\* _get_path gives the same result for either spelling of each argument
SpellingBlind ==
    /\ probe.result = _get_path(probe.ctx, Toggle(probe.args[1]), probe.args[2])
    /\ probe.result = _get_path(probe.ctx, probe.args[1], Toggle(Strip(probe.args[2])))

\* C19 as stated: with a base, the file name returned by _get_path(suffix, ext)
\* is base, then the suffix behind one '.', then the extension behind one '.'
\* (nothing for an empty part), and the result does not depend on whether
\* suffix or extension is passed with its leading '.'.
C19_OneSeparatorEach ==
    PathProbed =>
      /\ probe.result =
           PathJoin(probe.ctx.output_dir,
                    probe.ctx.base \o Sep(Bare(probe.args[1])) \o Sep(Bare(Strip(probe.args[2]))))
      /\ SpellingBlind

\* C19, amended: as above, except that the extension is left out when the
\* suffix behind its '.' already ends with the extension behind its '.'.
C19_OneSeparatorUnlessRepeated ==
    PathProbed =>
      LET suffix == Sep(Bare(probe.args[1]))
          ext == Sep(Bare(Strip(probe.args[2])))
      IN  /\ probe.result =
               PathJoin(probe.ctx.output_dir,
                        IF ext # <<>> /\ EndsWith(suffix, ext)
                        THEN probe.ctx.base \o suffix
                        ELSE probe.ctx.base \o suffix \o ext)
          /\ SpellingBlind

C19_Witness ==
    /\ PathProbed
    /\ probe.args = << <<"m", DOT, "x">>, <<" ", "x">> >>
    /\ probe.result = <<"o", SEP, "v", DOT, "m", DOT, "x">>

InputFields == {"url", "output_dir", "yandex_audio"}

\* C20: the snapshot is fixed.  From its construction to the end of the run,
\* the context holds the url, the output directory and the audio path the run
\* was called with, and the nine settings of the dictionary it was called with:
\* no step changes any of them.
C20_SnapshotFixed ==
    /\ \A t \in DOMAIN call :
         LET c == call[t]
         IN  c.ctx # NoContext =>
               /\ c.ctx.url = c.url
               /\ c.ctx.output_dir = OUTPUT_DIR
               /\ c.ctx.yandex_audio = c.yandex_audio
               /\ \A k \in SettingKeys : c.ctx[k] = c.settings.values[k]
    /\ [][ \A t \in DOMAIN call :
             (call[t].ctx # NoContext /\ call'[t].ctx # NoContext) =>
               \A k \in InputFields \cup SettingKeys : call'[t].ctx[k] = call[t].ctx[k] ]_vars

C20_Witness ==
    /\ call[CALLER].pc = "returned"
    /\ call[CALLER].result = "True"
    /\ Len(call[CALLER].steps) = 2
    /\ \A i \in 1..2 : call[CALLER].steps[i].outcome = "returned"
    /\ call[CALLER].yandex_audio = AUDIO_PATH
    /\ call[CALLER].settings.values.target_lang = L_EN
    /\ call[CALLER].ctx.yandex_audio = AUDIO_PATH
    /\ call[CALLER].ctx.target_lang = L_EN

\* the messages with which a translation command announces that it does nothing
SkipLogs ==
    { <<"[WARN]", "Skipping subtitle translation: No source subtitle path">>,
      <<"[WARN]", "Source and target language are the same. Skipping subtitle translation.">>,
      <<"[WARN]", "Skipping metadata translation: base not set">>,
      <<"[INFO]", "Skipping metadata translation: No source metadata">>,
      <<"[WARN]", "Source and target language are the same. Skipping metadata translation.">> }

Translations == {"dt", "tm"}

SameLanguage(c) == c.ctx # NoContext /\ c.ctx.source_lang = c.ctx.target_lang

\* C21: scenario B.  In a run whose source and target language are the same,
\* a loop iteration for dt or tm returns, logs a skip, calls no translator,
\* leaves both translated-path slots null and does not mark the run failed;
\* such a run returns True unless a step other than a translation failed.
C21_SameLanguageSkips ==
    /\ [][ \A t \in DOMAIN call :
             LET c == call[t]
                 d == call'[t]
             IN  ( /\ SameLanguage(c)
                   /\ Len(d.steps) = Len(c.steps) + 1
                   /\ d.steps[Len(d.steps)].key \in Translations )
                 => /\ d.steps[Len(d.steps)].outcome = "returned"
                    /\ d.steps[Len(d.steps)].invoked = {}
                    /\ \E i \in (Len(queue) + 1)..Len(queue') : queue'[i].data \in SkipLogs
                    /\ d.ctx.translated_subtitle_path = None
                    /\ d.ctx.translated_metadata_path = None
                    /\ d.success = c.success ]_vars
    /\ [] \A t \in DOMAIN call :
            LET c == call[t]
            IN  ( /\ SameLanguage(c)
                  /\ c.pc = "returned"
                  /\ \A i \in 1..Len(c.steps) :
                       c.steps[i].key \notin Translations =>
                         c.steps[i].outcome \in {"returned", "unknown"} )
                => c.result = "True"

C21_Witness ==
    LET c == call[CALLER]
    IN  /\ SameLanguage(c)
        /\ c.pc = "returned"
        /\ c.result = "True"
        /\ Len(c.steps) = 3
        /\ c.steps[2].key = "ds" /\ c.steps[2].outcome = "returned"
        /\ c.ctx.subtitle_path # None
        /\ c.steps[3].key = "dt" /\ c.steps[3].outcome = "returned"
        /\ c.ctx.translated_subtitle_path = None

\* the identifiers of a list that the registry does not know
Unknown(actions) == { actions[i] : i \in 1..Len(actions) } \ COMMAND_MAPPING

\* C22: unknown identifiers are dropped.  The resolved order of a run holds
\* registered identifiers only; when the run has returned from its loop there
\* is a log entry naming each unknown identifier of the request; no command is
\* executed for an unknown identifier; and a run in which no registered step
\* failed returns True.
C22_UnknownDropped ==
    \A t \in DOMAIN call :
      LET c == call[t]
      IN  /\ Resolved(c) => Unknown(c.ordered) = {}
          /\ (Resolved(c) /\ c.pc = "returned") =>
               \A a \in Unknown(c.actions) :
                 \E i \in 1..Len(queue) :
                   queue[i].data = <<"[WARN]", "Unknown action key, skipping.", a>>
          /\ \A i \in 1..Len(c.steps) :
               c.steps[i].key \notin COMMAND_MAPPING =>
                 /\ c.steps[i].outcome = "unknown"
                 /\ c.steps[i].invoked = {}
                 /\ ~c.steps[i].wrote
          /\ ( /\ Resolved(c) /\ c.pc = "returned"
               /\ \A i \in 1..Len(c.steps) : c.steps[i].outcome \in {"returned", "unknown"} )
             => c.result = "True"

\* <<p, q>>: command q reads what command p leaves in the context
Feeds ==
    { <<"md", k>> : k \in IdentityDependent } \cup { <<"ds", "dt">>, <<"dv", "da">> }

\* the orders in which the actions of a request can be listed
Reorderings(s) ==
    { p \in [1..Len(s) -> Elems(s)] : \A i, j \in 1..Len(s) : i # j => p[i] # p[j] }

JustResolved(c) == c.pc = "loop" /\ c.idx = 1 /\ c.steps = <<>>

\* C23: the order is safe for an unordered request.  In the resolved order a
\* command that reads what another command of the order produces comes after
\* it, and listing the requested actions in another order leads, from the same
\* context and disk, to the same possible results of the run.
C23_OrderInsensitive ==
    \A t \in DOMAIN call :
      LET c == call[t]
      IN  /\ Resolved(c) =>
                \A i, j \in 1..Len(c.ordered) :
                  <<c.ordered[i], c.ordered[j]>> \in Feeds => i < j
          /\ JustResolved(c) =>
                \A p \in Reorderings(c.actions) :
                  RunFrom(ResolveOrder(p), 1, env, c.ctx, disk)
                    = RunFrom(c.ordered, 1, env, c.ctx, disk)

\* the files activation c has written so far
WrittenBy(c) ==
    { p \in DOMAIN disk : p \notin DOMAIN c.disk0 \/ disk[p] # c.disk0[p] }

\* the call that activation c repeats was aborted by its last loop iteration
RepeatsAborted(c) ==
    /\ c.earlier # <<>>
    /\ c.earlier[Len(c.earlier)].result = "False"
    /\ c.earlier[Len(c.earlier)].steps # <<>>
    /\ c.earlier[Len(c.earlier)].steps[Len(c.earlier[Len(c.earlier)].steps)].outcome
         \in {"raised", "precond"}

\* C24: no rollback.  The loop iteration that aborts a run, and the report
\* after it, leave every file the run has written on disk with its content;
\* and when the same call is made again, each step that wrote a file before
\* the abort is executed without an external tool and writes nothing.
C24_NoRollbackThenSkip ==
    /\ [][ \A t \in DOMAIN call :
             ((call[t].success /\ ~call'[t].success) \/ call[t].pc = "report") =>
               \A p \in WrittenBy(call[t]) : p \in DOMAIN disk' /\ disk'[p] = disk[p] ]_vars
    /\ [] \A t \in DOMAIN call :
            LET c == call[t]
            IN  RepeatsAborted(c) =>
                  LET before == c.earlier[Len(c.earlier)].steps
                  IN  \A i \in 1..(Len(before) - 1) :
                        (before[i].wrote /\ i <= Len(c.steps)) =>
                          /\ c.steps[i].invoked = {}
                          /\ ~c.steps[i].wrote

\* nothing has been derived or produced in this context
Fresh(ctx) ==
    /\ ctx.base = None /\ ctx.title = None /\ ctx.description = None
    /\ ctx.tags = <<>>
    /\ \A f \in ArtifactSlots : ctx[f] = None

\* C25: a fresh context per run.  The step that constructs the context of a run
\* yields a context with no base name, title or description, no tags and all
\* artifact slots null, whatever the contexts of other runs hold; and a step
\* that changes the context of one run leaves every other run as it is.
C25_FreshContextPerRun ==
    [][ \A t \in DOMAIN call :
          /\ (call[t].ctx = NoContext /\ call'[t].ctx # NoContext) => Fresh(call'[t].ctx)
          /\ call'[t].ctx # call[t].ctx =>
               \A u \in DOMAIN call \ {t} : call'[u] = call[u] ]_vars

\* the second run has its context, still fresh, while the context of the first
\* run holds what its commands stored
C25_Witness ==
    /\ {1, 2} \subseteq DOMAIN call
    /\ call[1].ctx # NoContext
    /\ call[1].ctx.base # None
    /\ call[1].ctx.metadata_path # None
    /\ call[2].ctx # NoContext
    /\ Fresh(call[2].ctx)

\* the path the constants module configures for a tool (constants.py, lines 8-9)
Override(e, tool) ==
    IF tool = "ffmpeg" THEN e.constants.FFMPEG_PATH ELSE e.constants.YTDLP_PATH

HasOverride(e, tool) == Override(e, tool) # None /\ Override(e, tool) \in e.executables

\* C26: the override comes first.  For a tool whose path is configured in the
\* constants module and names an executable file, get_tool_path returns that
\* path, and the preflight check of a request whose tools are all configured in
\* this way passes, whatever the system lookup finds.
C26_OverrideFirst ==
    /\ probe.fn = "get_tool_path" =>
         (HasOverride(env, probe.args[1]) => probe.result = Override(env, probe.args[1]))
    /\ probe.fn = "_check_tool_availability" =>
         ((\A tool \in RequiredTools(probe.args[1]) : HasOverride(env, tool)) => probe.result)

\* activation c is about to execute 'ds', and the command will run yt-dlp
DsRunsTool(c) ==
    /\ c.pc = "loop"
    /\ c.ordered[c.idx] = "ds"
    /\ Truthy(c.ctx.base) /\ Truthy(c.ctx.subtitle_lang) /\ Truthy(c.ctx.subtitle_format)
    /\ ~Exists(disk, get_subtitle_filepath(c.ctx, c.ctx.subtitle_lang))
    /\ get_tool_path(env, "yt-dlp") # None

\* C27: expected absence is not a failure.  When yt-dlp, run by 'ds', writes
\* nothing and reports that there are no subtitles for the language, with exit
\* status zero or not, the command returns with subtitle_path null; when it
\* exits non-zero with another report the command raises; and a 'ds' iteration
\* that returns leaves the run going, one that raises fails it.
C27_AbsenceIsNotFailure ==
    /\ [] \A t \in DOMAIN call :
            LET c == call[t]
                expected == get_subtitle_filepath(c.ctx, c.ctx.subtitle_lang)
            IN  DsRunsTool(c) =>
                  /\ \A r \in SubsAfterRun(c.ctx, disk, expected, TRUE, <<>>)
                              \cup SubsAfterError(c.ctx, disk, TRUE, <<>>) :
                       r.raised = NoExc /\ r.ctx.subtitle_path = None
                  /\ \A r \in SubsAfterError(c.ctx, disk, FALSE, <<>>) : r.raised # NoExc
    /\ [][ \A t \in DOMAIN call :
             LET c == call[t]
                 d == call'[t]
             IN  (Len(d.steps) = Len(c.steps) + 1 /\ d.steps[Len(d.steps)].key = "ds") =>
                   /\ d.steps[Len(d.steps)].outcome = "returned" => d.success = c.success
                   /\ d.steps[Len(d.steps)].outcome = "raised" => ~d.success /\ d.pc = "report" ]_vars

\* C28: the pop never blocks.  get_message_from_queue can be called in every
\* state; on an empty queue the call changes nothing; and a step in which the
\* consumer is handed an event hands it exactly the oldest event of the queue,
\* removes that event and leaves the others in place and in order.
C28_NonBlockingPop ==
    /\ [](ENABLED Drain)
    /\ [](queue = <<>> => ~ENABLED (Drain /\ vars' # vars))
    /\ [][ consumer'.received # consumer.received =>
             /\ queue # <<>>
             /\ consumer'.received = Append(consumer.received, Head(queue))
             /\ queue' = Tail(queue) ]_vars

\* the consumer has taken the first event while later ones wait
C28_Witness ==
    /\ Len(consumer.received) = 1
    /\ consumer.received[1].type = "status"
    /\ Len(queue) >= 3

\* ------------------------------------------------------ gui/main_window.py
\* MainApplication as the consumer of the viewmodel.  consumer.running[o] is
\* its own flag for origin o: _is_running_url_processing for 'url',
\* _is_running_trim for 'trim'.  The controls are disabled when a flag is set
\* and enabled when it is reset (_set_controls_state in the same handler).

\* lines 185-256: the start button of the URL tab with valid input; vm.run
\* returns without raising
_on_start_url_processing ==
    /\ ~consumer.running["url"]
    /\ ~consumer.running["trim"]
    /\ VM_run
    /\ consumer' = [consumer EXCEPT !.cmd = "url", !.running["url"] = TRUE]

\* lines 258-326: the start button of the trim tab with valid input;
\* vm.run_trim returns without raising
_on_start_trim ==
    /\ ~consumer.running["trim"]
    /\ ~consumer.running["url"]
    /\ VM_run_trim
    /\ consumer' = [consumer EXCEPT !.cmd = "trim", !.running["trim"] = TRUE]

\* lines 336-391: one turn of the loop of _process_vm_queue
_process_vm_queue ==
    /\ IF queue = <<>>
       THEN \* None: the loop ends
            UNCHANGED <<queue, consumer>>
       ELSE LET message == QueueGet(queue).event
            IN  /\ queue' = QueueGet(queue).rest
                /\ consumer' =
                     [consumer EXCEPT
                        !.received = Append(@, message),
                        !.running = IF /\ message.type = "status"
                                       /\ message.data \in {"finished", "error"}
                                       /\ message.origin \in Origins
                                    THEN [@ EXCEPT ![message.origin] = FALSE]
                                    ELSE @]
    /\ UNCHANGED <<busy, thread_of, threads, call, disk, env, started, probe>>

NextGui ==
    \/ _on_start_url_processing
    \/ _on_start_trim
    \/ _process_vm_queue
    \/ \E t \in UrlWorkers : PA_Entry(t)
    \/ \E t \in UrlWorkers : PA_Preflight(t)
    \/ \E t \in UrlWorkers : PA_Construct(t)
    \/ \E t \in UrlWorkers : PA_Resolve(t)
    \/ \E t \in UrlWorkers : PA_Step(t)
    \/ \E t \in UrlWorkers : PA_Report(t)
    \/ \E t \in UrlWorkers : Task_Returned(t)
    \/ \E t \in UrlWorkers : Task_Except(t)
    \/ \E t \in Tids : Trim_Execute(t)
    \/ \E t \in Tids : Trim_Except(t)
    \/ \E t \in Tids : Task_Finally_Put(t)
    \/ \E t \in Tids : Task_Finally_Clear(t)

SpecGui == InitBridge /\ [][NextGui]_vars

\* every started worker is scheduled until it ends, and the window keeps
\* looking at the queue (_check_vm_queue_periodically re-arms itself, line 406)
SpecGuiFair ==
    /\ InitBridge
    /\ [][NextGui]_vars
    /\ \A t \in 1..MaxStarts : WF_vars(WorkerStep(t))
    /\ WF_vars(_process_vm_queue)

\* the terminal status events of origin o the consumer has been handed
Dequeued(o) ==
    Cardinality({ i \in 1..Len(consumer.received) : IsTerminalStatus(consumer.received[i], o) })

\* the runs of origin o that were accepted so far
WorkersOf(o) == Cardinality({ t \in Tids : threads[t].origin = o })

\* C29: no stale rejection.  When the window has been handed the terminal
\* status of every run of origin o that was ever accepted, a start for o that
\* it issues is not turned down by the busy test of o, wherever the worker of
\* the last run stands in its completion handler.
C29_NoStaleRejection ==
    [][ \A o \in Origins :
          (StartOf(o) /\ WorkersOf(o) > 0 /\ Dequeued(o) = WorkersOf(o)) => ~IsBusy(o) ]_vars

\* C30: the window does not stay in the running state.  Whenever its flag
\* for origin o is set (it is set only by a start handler, which then calls
\* vm.run / vm.run_trim), the flag is reset later on, which happens only when
\* a terminal status of o is dequeued; also after a start the viewmodel
\* turned down.
C30_NeverStuckRunning ==
    \A o \in Origins : consumer.running[o] ~> ~consumer.running[o]

\* a step that raised before it ran any tool, one of its tools being absent
FailedForMissingTool(st) ==
    /\ st.outcome = "raised"
    /\ st.invoked = {}
    /\ \E tool \in TOOL_DEPENDENCIES(st.key) : get_tool_path(env, tool) = None

\* C31: the preflight covers the resolved order.  Once a call has passed the
\* tool check and resolved its order, no tool of any step of that order, an
\* inserted 'md' included, is missing, and no step of the run fails because
\* its tool is missing (the environment does not change during a run).
C31_PreflightCoversOrder ==
    \A t \in DOMAIN call :
        Resolved(call[t]) =>
          /\ MissingTools(env, call[t].ordered) = {}
          /\ \A i \in 1..Len(call[t].steps) : ~FailedForMissingTool(call[t].steps[i])

\* the worker is inside its operation: perform_actions, TrimMedia.execute
Operating(t) == threads[t].pc = "op"

OtherOrigin(o) == IF o = "url" THEN "trim" ELSE "url"

\* C32: mutual exclusion across origins.  In every state at most one worker
\* is executing its operation, so never a 'url' and a 'trim' worker at once;
\* and a start of an origin made while the worker of the other origin is
\* alive with its flag set spawns no worker, changes no flag and adds exactly
\* one event, a WARN log tagged with the origin asked for.
C32_GlobalExclusion ==
    /\ [](Cardinality({ t \in Tids : Operating(t) }) <= 1)
    /\ [][ \A o \in Origins :
             (StartOf(o) /\ IsBusy(OtherOrigin(o))) => Rejected(o) ]_vars

\* a trim start was turned down while the URL worker was inside
\* perform_actions, and that worker is still there
C32_Witness ==
    /\ started = 2
    /\ Len(threads) = 1
    /\ threads[1].origin = "url"
    /\ Operating(1)
    /\ call[1].steps # <<>>
    /\ consumer.cmd = "trim"
    /\ queue # <<>>
    /\ queue[Len(queue)].type = "log"
    /\ queue[Len(queue)].level = "WARN"
    /\ queue[Len(queue)].origin = "trim"

\* --------------------------------------- a worker thread that cannot start
\* Thread.start() raises RuntimeError when the interpreter cannot start a new
\* thread.  run / run_trim have by then set their flag, enqueued 'running' and
\* stored the thread object (lines 105-131, 143-173); the exception goes to the
\* caller.  The thread object never runs: is_alive() is False from the start,
\* and nothing resets the flag.
StartRaises(o) ==
    /\ started < MaxStarts
    /\ started' = started + 1
    /\ ~IsBusy(o)
    /\ ~IsBusy(IF o = "url" THEN "trim" ELSE "url")
    /\ busy' = [busy EXCEPT ![o] = TRUE]
    /\ queue' = AnnounceRunning(queue, o)
    /\ threads' = Append(threads, [WorkerThread(o, None) EXCEPT !.pc = "done"])
    /\ thread_of' = [thread_of EXCEPT ![o] = Len(threads) + 1]
    /\ consumer' = [consumer EXCEPT !.cmd = o]
    /\ UNCHANGED <<call, disk, env, probe>>

NextBridgeFault ==
    \/ NextBridge
    \/ StartRaises("url")
    \/ StartRaises("trim")

SpecBridgeFault == InitBridge /\ [][NextBridgeFault]_vars

\* C33: a flag left set by a dead worker does not block.  A start is turned
\* down only when some flag is set and the thread of that flag is alive; a
\* start made while no thread is alive is accepted, whatever the flags are.
C33_DeadWorkerDoesNotBlock ==
    [][ \A o \in Origins :
          StartOf(o) =>
            /\ Rejected(o) =>
                 \E p \in Origins :
                    busy[p] /\ thread_of[p] # NoThread /\ threads[thread_of[p]].pc # "done"
            /\ (\A t \in Tids : threads[t].pc = "done") => Accepted(o) ]_vars

\* the flag of an origin stayed set with its thread dead, and the next start
\* of that origin was accepted: its worker is running
C33_Witness ==
    /\ started = 2
    /\ Len(threads) = 2
    /\ threads[1].origin = threads[2].origin
    /\ threads[1].pc = "done"
    /\ threads[1].put = <<>>
    /\ threads[2].pc = "op"
    /\ busy[threads[2].origin]
    /\ thread_of[threads[2].origin] = 2

\* the number of 'running' status events of origin o put so far
Announced(o) ==
    Cardinality({ i \in 1..Len(Events) :
                    Events[i].type = "status" /\ Events[i].origin = o /\ Events[i].data = "running" })

\* the rank of thread t among the threads of its origin
RankOf(t) == Cardinality({ u \in 1..t : threads[u].origin = threads[t].origin })

\* C34: the terminal status is the last event of its run.  A worker only
\* appends to the queue; whatever it puts, it puts after the 'running' status
\* of its run and before it has put a terminal status; and its terminal
\* status is put alone, at the end of the queue.  So the events of a run lie
\* between its 'running' and its terminal status.
C34_TerminalIsLast ==
    [][ \A t \in Tids :
          (StepOf(t) /\ queue' # queue) =>
            /\ IsPrefix(queue, queue')
            /\ threads[t].put = <<>>
            /\ Announced(threads[t].origin) >= RankOf(t)
            /\ threads'[t].put # <<>> =>
                 /\ queue' = Append(queue, threads'[t].put[1])
                 /\ IsTerminalStatus(threads'[t].put[1], threads[t].origin) ]_vars

\* a worker has ended; its terminal status is the newest event and log events
\* of its run lie between that and the 'running' status
C34_Witness ==
    /\ Len(threads) = 1
    /\ threads[1].pc = "done"
    /\ Len(Events) >= 3
    /\ Events[1].type = "status" /\ Events[1].data = "running"
    /\ Events[2].type = "log"
    /\ Events[Len(Events)] = threads[1].put[1]

\* how often x occurs in s
Count(s, x) == Cardinality({ i \in 1..Len(s) : s[i] = x })

\* C35: order resolution neither loses nor duplicates.  For every request the
\* resolved order without 'md' is the request without 'md'; 'md' occurs in it
\* exactly once when the request holds an identity-dependent action; and
\* without such an action the resolved order is the request itself.
C35_ResolutionPreserves ==
    \A t \in DOMAIN call :
      LET c == call[t]
      IN  Resolved(c) =>
            /\ Without(c.ordered, "md") = Without(c.actions, "md")
            /\ IF Elems(c.actions) \cap IdentityDependent # {}
               THEN Count(c.ordered, "md") = 1
               ELSE c.ordered = c.actions

\* a request of three with 'md' last and an unregistered identifier was
\* resolved, 'md' was moved
C35_Witness ==
    \E t \in DOMAIN call :
      LET c == call[t]
      IN  /\ Resolved(c)
          /\ Len(c.actions) = 3
          /\ c.actions[3] = "md"
          /\ "tp" \in Elems(c.actions)
          /\ Elems(c.actions) \cap IdentityDependent # {}
          /\ c.ordered # c.actions

\* the run has ended Completed: perform_actions returned True
Completed(c) == c.pc = "returned" /\ c.result = "True"

\* C36: what the window offers, the registry executes.  A run that was asked
\* for identifiers the window offers and that ended Completed has executed the
\* command of each of them: for each there is a step of the run in which the
\* command was called and returned.
C36_OfferedAreExecuted ==
    \A t \in DOMAIN call :
      LET c == call[t]
      IN  (Completed(c) /\ Elems(c.actions) \subseteq ActionIds) =>
            \A a \in Elems(c.actions) :
              \E i \in 1..Len(c.steps) :
                c.steps[i].key = a /\ c.steps[i].outcome = "returned"

\* C37: the translated subtitle is not the source subtitle.  Whenever the
\* context of a run holds a translated_subtitle_path, it differs from
\* subtitle_path, and the dt step that recorded it either wrote the file or
\* found a file the ds step of the run did not record as the download; so also
\* under settings with subtitle_lang = target_lang # source_lang.
C37_TranslationIsNotSource ==
    \A t \in DOMAIN call :
      LET c == call[t]
      IN  (c.ctx # NoContext /\ c.ctx.translated_subtitle_path # None) =>
            /\ c.ctx.translated_subtitle_path # c.ctx.subtitle_path
            /\ \A i, j \in 1..Len(c.steps) :
                 (c.steps[i].key = "ds" /\ c.steps[j].key = "dt" /\ c.steps[j].slot # None)
                   => c.steps[j].slot # c.steps[i].slot

\* the run of c is about to execute 'da', its order holds no 'dv', and all
\* the merge needs is there: the primary media file at its derived path, the
\* audio file, and ffmpeg
MergeOnLeftover(c) ==
    /\ c.pc = "loop"
    /\ c.ordered[c.idx] = "da"
    /\ "dv" \notin Elems(c.ordered)
    /\ Truthy(c.ctx.base)
    /\ Truthy(get_video_filepath(c.ctx))
    /\ Exists(disk, get_video_filepath(c.ctx))
    /\ Truthy(c.ctx.yandex_audio)
    /\ Exists(disk, c.ctx.yandex_audio)
    /\ get_tool_path(env, "ffmpeg") # None

\* C38: a merge may use the media file an earlier run left.  When a run
\* without 'dv' reaches its 'da' step with the primary media file on disk at
\* its derived path, the step does not stop before the merge: it returns, or
\* it fails only after ffmpeg was run.
C38_MergeUsesLeftover ==
    [][ \A t \in DOMAIN call :
          (MergeOnLeftover(call[t]) /\ call'[t] # call[t]) =>
            LET st == call'[t].steps[Len(call'[t].steps)]
            IN  /\ st.key = "da"
                /\ st.outcome = "returned" \/ st.invoked # {} ]_vars

====
